---- MODULE Spec2Model ----
(***************************************************************************)
(* Model of the GOAP engine of src/goap-planner.js: GOAPState, GOAPAction, *)
(* GOAPNode, GOAPPlanner.generatePlan and OODALoop.                        *)
(*                                                                         *)
(* A JavaScript Map and a plain object are both modelled as a sequence of  *)
(* <<key, value>> pairs in iteration order.  Primitive values are written  *)
(* as their literal text ("true", "false", "0", "''"), so that values of   *)
(* different JavaScript types can be compared with ===.                    *)
(*                                                                         *)
(* Specifications:                                                         *)
(*   Spec       a planner whose repertoire is registered from ActionPool   *)
(*              and whose generatePlan runs one loop pass per step;        *)
(*   SpecCap    a planner with NumSetters independent actions, each call   *)
(*              of generatePlan being one step;                            *)
(*   SpecState  GOAPState objects and the calls made on them;              *)
(*   SpecLoop   an OODALoop set up by a caller and run with runOODALoop;   *)
(*   SpecCaller an OODALoop whose caller acts while the loop is suspended; *)
(*   SpecAnalyze analyzePlan called on a caller's plans;                   *)
(*   SpecRegister addAction called with any action a caller constructs;    *)
(*   SpecTwoPath the planner over a repertoire with two paths to a state;  *)
(*   SpecPlan the planner of the agent module called on a caller's inputs; *)
(*   SpecAgent a GoalOrientedAgent of the agent module and its caller.     *)
(***************************************************************************)
EXTENDS Integers, Sequences, FiniteSets, TLC

VARIABLES actions, search, heap, lastOp, loop, agent

vars == <<actions, search, heap, lastOp, loop, agent>>

(***************************************************************************)
(* JavaScript primitives                                                   *)
(***************************************************************************)
JsTrue == "true"
JsFalse == "false"
JsUndefined == "undefined"

\* the falsy primitives: v || false evaluates to false exactly for these
Falsy(v) == v \in {"false", "0", "''", "undefined", "null"}

\* x || false
OrFalse(v) == IF Falsy(v) THEN JsFalse ELSE v

(***************************************************************************)
(* Map and Object                                                          *)
(***************************************************************************)
MapHas(m, k) == \E i \in 1..Len(m) : m[i][1] = k

MapIndex(m, k) == CHOOSE i \in 1..Len(m) : m[i][1] = k

\* Map.prototype.get: undefined for an absent key
MapGet(m, k) == IF MapHas(m, k) THEN m[MapIndex(m, k)][2] ELSE JsUndefined

\* Map.prototype.set: an existing key keeps its position, a new key is appended
MapSet(m, k, v) ==
    IF MapHas(m, k) THEN [m EXCEPT ![MapIndex(m, k)] = <<k, v>>]
    ELSE Append(m, <<k, v>>)

\* keys that are array indices; an object enumerates them first, ascending
ArrayIndexKeys == <<"0", "1", "2">>

IsArrayIndex(k) == \E i \in 1..Len(ArrayIndexKeys) : ArrayIndexKeys[i] = k

RECURSIVE IndexEntries(_, _)
IndexEntries(entries, i) ==
    IF i > Len(ArrayIndexKeys) THEN <<>>
    ELSE SelectSeq(entries, LAMBDA e : e[1] = ArrayIndexKeys[i])
         \o IndexEntries(entries, i + 1)

\* Object.fromEntries over entries with distinct keys: own properties in
\* property order (array indices ascending, then strings in insertion order)
ObjectFromEntries(entries) ==
    IndexEntries(entries, 1)
    \o SelectSeq(entries, LAMBDA e : ~IsArrayIndex(e[1]))

\* Object.entries of an object (already in property order)
ObjectEntries(obj) == obj

(***************************************************************************)
(* GOAPState.  A state object is a reference r into a heap h, the sequence *)
(* of the Maps of all state objects; a method that allocates returns the   *)
(* new heap and the reference of the new object.                           *)
(***************************************************************************)
\* constructor(state): new Map(Object.entries(state))
NewGOAPState(obj) == ObjectEntries(obj)

\* clone() that returns the receiver itself
cloneShared(h, r) == <<h, r>>

\* clone(): a new object over a copy of the receiver's entries
clone(h, r) == <<Append(h, NewGOAPState(ObjectFromEntries(h[r]))), Len(h) + 1>>

\* get(key)
get(s, key) == OrFalse(MapGet(s, key))

\* set that replaces the whole map by the one entry
setOnly(h, r, key, value) == [h EXCEPT ![r] = << <<key, value>> >>]

\* set(key, value): the Map of the receiver is changed in place; no result
set(h, r, key, value) == [h EXCEPT ![r] = MapSet(h[r], key, value)]

\* a test that one condition suffices to pass
satisfiesAny(s, conditions) ==
    \E i \in 1..Len(ObjectEntries(conditions)) :
        get(s, conditions[i][1]) = conditions[i][2]

\* satisfies(conditions)
satisfies(s, conditions) ==
    \A i \in 1..Len(ObjectEntries(conditions)) :
        get(s, conditions[i][1]) = conditions[i][2]

\* lines 31-33: newState.set(key, value) for each entry of effects
RECURSIVE SetEach(_, _, _, _)
SetEach(h, r, entries, i) ==
    IF i > Len(entries) THEN h
    ELSE SetEach(set(h, r, entries[i][1], entries[i][2]), r, entries, i + 1)

\* applyEffects(effects)
applyEffects(h, r, effects) ==
    LET newState == clone(h, r)
    IN <<SetEach(newState[1], newState[2], ObjectEntries(effects), 1), newState[2]>>

\* the Map of the object that applyEffects returns for a receiver with Map s
WithEffects(s, effects) ==
    LET result == applyEffects(<<s>>, 1, effects)
    IN result[1][result[2]]

\* getDistance(goalState)
getDistance(s, goalState) ==
    Cardinality({i \in 1..Len(goalState) : get(s, goalState[i][1]) # goalState[i][2]})

\* toString(): the JSON text of Object.fromEntries(this.state), written as
\* the sequence of its members
toString(s) == ObjectFromEntries(s)

(***************************************************************************)
(* GOAPAction                                                              *)
(***************************************************************************)
GOAPAction(name, preconditions, effects, cost, executionType) ==
    [name |-> name, preconditions |-> preconditions, effects |-> effects,
     cost |-> cost, executionType |-> executionType]

\* the null action of the root node
NoAction == GOAPAction("", <<>>, <<>>, 0, "")

isApplicable(a, s) == satisfies(s, a.preconditions)

\* apply without the test of line 68
applyUnchecked(a, s) == <<TRUE, WithEffects(s, a.effects)>>

\* apply(state): <<TRUE, new state>>, or <<FALSE, <<>>>> for the thrown Error
apply(a, s) ==
    IF ~isApplicable(a, s) THEN <<FALSE, <<>>>>
    ELSE <<TRUE, WithEffects(s, a.effects)>>

(***************************************************************************)
(* GOAPNode                                                                *)
(***************************************************************************)
\* constructor(state, action, parent, cost); parent is a node id, 0 for null
GOAPNode(state, action, parent, cost) ==
    [state |-> state, action |-> action, parent |-> parent, cost |-> cost,
     heuristic |-> 0, totalCost |-> cost]

\* getPath with a loop that stops one node early: while (current.parent.parent)
RECURSIVE getPathStopsEarly(_, _)
getPathStopsEarly(nodes, id) ==
    IF nodes[id].parent = 0 \/ nodes[nodes[id].parent].parent = 0 THEN <<>>
    ELSE Append(getPathStopsEarly(nodes, nodes[id].parent), nodes[id].action)

RECURSIVE getPath(_, _)
getPath(nodes, id) ==
    IF nodes[id].parent = 0 THEN <<>>
    ELSE Append(getPath(nodes, nodes[id].parent), nodes[id].action)

(***************************************************************************)
(* GOAPPlanner                                                             *)
(***************************************************************************)
maxSearchDepth == 20
maxIterations == 1000

\* addAction(action): this.actions.set(action.name, action)
RegistryIndex(acts, name) == CHOOSE i \in 1..Len(acts) : acts[i].name = name

addAction(acts, a) ==
    IF \E i \in 1..Len(acts) : acts[i].name = a.name
    THEN [acts EXCEPT ![RegistryIndex(acts, a.name)] = a]
    ELSE Append(acts, a)

\* the activation record of generatePlan when no call is active
NoSearch ==
    [pc |-> "idle", currentState |-> <<>>, goalState |-> <<>>, nodes |-> <<>>,
     openSet |-> <<>>, closedSet |-> {}, iterations |-> 0, current |-> 0,
     plan |-> <<>>]

\* lines 149-159: the frontier holds the start node
BeginSearch(currentState, goalState) ==
    LET h == getDistance(currentState, goalState)
        startNode == [GOAPNode(currentState, NoAction, 0, 0)
                         EXCEPT !.heuristic = h, !.totalCost = h]
    IN [pc |-> "loop", currentState |-> currentState, goalState |-> goalState,
        nodes |-> <<startNode>>, openSet |-> <<1>>, closedSet |-> {},
        iterations |-> 0, current |-> 0, plan |-> <<>>]

MinTotalCost(nodes, open) ==
    CHOOSE c \in {nodes[open[i]].totalCost : i \in 1..Len(open)} :
        \A i \in 1..Len(open) : c <= nodes[open[i]].totalCost

\* the frontier left unsorted
sortOpenSetOmitted(nodes, open) == open

Reverse(seq) == [i \in 1..Len(seq) |-> seq[Len(seq) + 1 - i]]

\* a sort that is ascending but not stable: equal nodes come out reversed
RECURSIVE sortOpenSetUnstable(_, _)
sortOpenSetUnstable(nodes, open) ==
    IF open = <<>> THEN <<>>
    ELSE LET c == MinTotalCost(nodes, open)
         IN Reverse(SelectSeq(open, LAMBDA id : nodes[id].totalCost = c))
            \o sortOpenSetUnstable(nodes, SelectSeq(open, LAMBDA id : nodes[id].totalCost # c))

\* openSet.sort((a, b) => a.totalCost - b.totalCost): stable, ascending
RECURSIVE sortOpenSet(_, _)
sortOpenSet(nodes, open) ==
    IF open = <<>> THEN <<>>
    ELSE LET c == MinTotalCost(nodes, open)
         IN SelectSeq(open, LAMBDA id : nodes[id].totalCost = c)
            \o sortOpenSet(nodes, SelectSeq(open, LAMBDA id : nodes[id].totalCost # c))

\* every action expanded, applicable or not
ExpandGuardMissing(action, state) == TRUE

\* line 183: the guard under which an action is expanded
ExpandGuard(action, state) == isApplicable(action, state)

\* no successor pruned
PrunedNever(newCost) == FALSE

\* line 187: if (newCost > this.maxSearchDepth) continue
Pruned(newCost) == newCost > maxSearchDepth

\* lines 184-191: the node built for one applicable action
Successor(s, cur, action) ==
    LET newState == apply(action, s.nodes[cur].state)[2]
        newCost == s.nodes[cur].cost + action.cost
        h == getDistance(newState, s.goalState)
    IN [GOAPNode(newState, action, cur, newCost)
           EXCEPT !.heuristic = h, !.totalCost = newCost + h]

\* the actions, in repertoire order, for which line 193 pushes a node
PushedActions(s, cur, acts) ==
    SelectSeq(acts, LAMBDA a : /\ ExpandGuard(a, s.nodes[cur].state)
                               /\ ~Pruned(s.nodes[cur].cost + a.cost))

\* lines 182-195: for (const action of this.actions.values()); the call ends
\* with the Error of apply if apply is reached on an inapplicable action
Expand(s, cur, acts) ==
    IF \E i \in 1..Len(acts) : /\ ExpandGuard(acts[i], s.nodes[cur].state)
                               /\ ~apply(acts[i], s.nodes[cur].state)[1]
    THEN [s EXCEPT !.pc = "threw"]
    ELSE LET pushed == PushedActions(s, cur, acts)
         IN [s EXCEPT
                !.nodes = @ \o [j \in 1..Len(pushed) |-> Successor(s, cur, pushed[j])],
                !.openSet = @ \o [j \in 1..Len(pushed) |-> Len(s.nodes) + j]]

\* the loop condition without the iteration cap
LoopConditionNoCap(s) == Len(s.openSet) > 0

\* the loop condition of line 161
LoopCondition(s) == Len(s.openSet) > 0 /\ s.iterations < maxIterations

\* a closed set that is never consulted
AlreadyClosedNever(closedSet, stateKey) == FALSE

\* line 176: closedSet.has(stateKey)
AlreadyClosed(closedSet, stateKey) == stateKey \in closedSet

\* lines 162-195: one iteration of the while loop
LoopBody(s, acts) ==
    LET sorted == sortOpenSet(s.nodes, s.openSet)
        cur == Head(sorted)
        s1 == [s EXCEPT !.iterations = @ + 1, !.openSet = Tail(sorted),
                        !.current = cur]
        stateKey == toString(s.nodes[cur].state)
    IN IF satisfies(s.nodes[cur].state, ObjectFromEntries(s.goalState))
       THEN [s1 EXCEPT !.pc = "plan", !.plan = getPath(s.nodes, cur)]
       ELSE IF AlreadyClosed(s.closedSet, stateKey) THEN s1
       ELSE Expand([s1 EXCEPT !.closedSet = @ \cup {stateKey}], cur, acts)

\* lines 198-199
LoopEnd(s) == [s EXCEPT !.pc = "null"]

\* one pass through the while statement of line 161
LoopStep(s, acts) ==
    IF s.pc # "loop" THEN s
    ELSE IF LoopCondition(s) THEN LoopBody(s, acts)
    ELSE LoopEnd(s)

\* up to n passes, stopping at the return; halved so that the evaluation
\* nests only logarithmically deep
RECURSIVE RunSearch(_, _, _)
RunSearch(s, acts, n) ==
    IF s.pc # "loop" THEN s
    ELSE IF n = 1 THEN LoopStep(s, acts)
    ELSE RunSearch(RunSearch(s, acts, n \div 2), acts, n - (n \div 2))

\* generatePlan(currentState, goalState) run to its return: the loop is left
\* after at most maxIterations passes and one failed test of its condition
\* (a result still at "loop" means that it was not)
generatePlan(acts, currentState, goalState) ==
    RunSearch(BeginSearch(currentState, goalState), acts, maxIterations + 1)

\* Object.keys(obj)
ObjectKeys(obj) == [i \in 1..Len(obj) |-> obj[i][1]]

\* array.includes(key)
Includes(array, key) == \E i \in 1..Len(array) : array[i] = key

\* a test of the effects against one another only
canRunInParallelEffectsOnly(action1, action2) ==
    ~\E i \in 1..Len(action1.effects) :
        Includes(ObjectKeys(action2.effects), action1.effects[i][1])

\* canRunInParallel(action1, action2)
canRunInParallel(action1, action2) ==
    LET effects1 == ObjectKeys(action1.effects)
        effects2 == ObjectKeys(action2.effects)
        preconditions1 == ObjectKeys(action1.preconditions)
        preconditions2 == ObjectKeys(action2.preconditions)
    IN /\ ~\E i \in 1..Len(effects1) : Includes(preconditions2, effects1[i])
       /\ ~\E i \in 1..Len(effects2) : Includes(preconditions1, effects2[i])
       /\ ~\E i \in 1..Len(effects1) : Includes(effects2, effects1[i])

\* a loop that pushes every group it closes, whatever its length
RECURSIVE GroupFromKeepsSingles(_, _, _, _)
GroupFromKeepsSingles(plan, i, parallelGroups, currentGroup) ==
    IF i > Len(plan) THEN <<parallelGroups, currentGroup>>
    ELSE LET action == plan[i]
             canParallelize ==
                 \A j \in 1..Len(currentGroup) :
                     canRunInParallel(action, currentGroup[j])
         IN IF canParallelize /\ Len(currentGroup) < 3
            THEN GroupFromKeepsSingles(plan, i + 1, parallelGroups,
                                       Append(currentGroup, action))
            ELSE GroupFromKeepsSingles(plan, i + 1,
                                       Append(parallelGroups, currentGroup),
                                       <<action>>)

\* lines 223-237: the for loop from index i (0-based i - 1) on; the result is
\* <<parallelGroups, currentGroup>>
RECURSIVE GroupFrom(_, _, _, _)
GroupFrom(plan, i, parallelGroups, currentGroup) ==
    IF i > Len(plan) THEN <<parallelGroups, currentGroup>>
    ELSE LET action == plan[i]
             canParallelize ==
                 \A j \in 1..Len(currentGroup) :
                     canRunInParallel(action, currentGroup[j])
         IN IF canParallelize /\ Len(currentGroup) < 3
            THEN GroupFrom(plan, i + 1, parallelGroups, Append(currentGroup, action))
            ELSE GroupFrom(plan, i + 1,
                           IF Len(currentGroup) > 1
                           THEN Append(parallelGroups, currentGroup)
                           ELSE parallelGroups,
                           <<action>>)

\* findParallelizableActions(plan)
findParallelizableActions(plan) ==
    LET end == GroupFrom(plan, 1, <<>>, <<>>)
    IN IF Len(end[2]) > 1 THEN Append(end[1], end[2]) ELSE end[1]

\* a table with one duration for every execution type
baseTimeFlat(executionType) == 100

\* lines 260-267: baseTime[action.executionType] || 100
baseTime(executionType) ==
    IF executionType = "code" THEN 100
    ELSE IF executionType = "llm" THEN 200
    ELSE IF executionType = "hybrid" THEN 250
    ELSE 100

\* estimateExecutionTime(plan): plan.reduce from the left, starting at 0
RECURSIVE estimateExecutionTime(_)
estimateExecutionTime(plan) ==
    IF plan = <<>> THEN 0
    ELSE estimateExecutionTime(SubSeq(plan, 1, Len(plan) - 1))
         + baseTime(plan[Len(plan)].executionType)

\* lines 206: plan.reduce((sum, action) => sum + action.cost, 0)
RECURSIVE totalCostOf(_)
totalCostOf(plan) ==
    IF plan = <<>> THEN 0
    ELSE totalCostOf(SubSeq(plan, 1, Len(plan) - 1)) + plan[Len(plan)].cost

\* analyzePlan(plan)
analyzePlan(plan) ==
    [totalCost |-> totalCostOf(plan),
     actionCount |-> Len(plan),
     executionTypes |-> [i \in 1..Len(plan) |-> plan[i].executionType],
     parallelizable |-> findParallelizableActions(plan),
     estimatedTime |-> estimateExecutionTime(plan)]

(***************************************************************************)
(* OODALoop.  The object is a record of its fields, together with the      *)
(* position pc of its runOODALoop call and the locals of that call.  A     *)
(* field that may be null is <<>> for null and <<v>> for the value v.      *)
(* History entries carry no timestamp: time is not modelled.               *)
(***************************************************************************)
Null == <<>>

NonNull(v) == <<v>>

NoObservations ==
    [currentState |-> <<>>, planProgress |-> 0, totalSteps |-> 0,
     lastAction |-> Null, anomalies |-> <<>>]

NoAnalysis ==
    [stateChanged |-> FALSE, planValid |-> FALSE, goalReachable |-> FALSE,
     needsReplanning |-> FALSE]

NoDecision == [action |-> "", reason |-> ""]

\* constructor(planner)
OODALoop ==
    [currentPlan |-> Null, currentStep |-> 0, worldState |-> Null,
     goalState |-> Null, executionHistory |-> <<>>, monitoring |-> FALSE,
     pc |-> "constructed", observations |-> NoObservations,
     analysis |-> NoAnalysis, decision |-> NoDecision]

\* plan.map(a => a.name)
Names(plan) == [i \in 1..Len(plan) |-> plan[i].name]

\* a history entry has a truthy error member
HasError(e) == "error" \in DOMAIN e

\* an anomaly detection that reports nothing
detectAnomaliesNone(l) == <<>>

\* detectAnomalies()
detectAnomalies(l) ==
    IF Len(l.executionHistory) > 0
       /\ HasError(l.executionHistory[Len(l.executionHistory)])
    THEN << <<"Action failure", l.executionHistory[Len(l.executionHistory)].action>> >>
    ELSE <<>>

\* observe(): the observations, for a worldState that is not null
observe(l) ==
    [currentState |-> clone(<<l.worldState[1]>>, 1)[1][2],
     planProgress |-> l.currentStep,
     totalSteps |-> IF l.currentPlan # Null THEN Len(l.currentPlan[1]) ELSE 0,
     lastAction |-> IF l.executionHistory = <<>> THEN Null
                    ELSE NonNull(l.executionHistory[Len(l.executionHistory)]),
     anomalies |-> detectAnomalies(l)]

\* hasStateChangedUnexpectedly(observations); random is Math.random() < 0.1
hasStateChangedUnexpectedly(l, random) ==
    IF l.currentStep = 0 THEN FALSE ELSE random

\* isPlanStillValid(): plan[i] of the source is l.currentPlan[1][i + 1]
isPlanStillValid(l) ==
    IF l.currentPlan = Null \/ l.currentStep >= Len(l.currentPlan[1]) THEN FALSE
    ELSE \A i \in (l.currentStep + 1)..Len(l.currentPlan[1]) :
             isApplicable(l.currentPlan[1][i], l.worldState[1])

\* isGoalStillReachable()
isGoalStillReachable(l, acts) ==
    generatePlan(acts, l.worldState[1], l.goalState[1]).pc # "null"

\* orient(observations)
orient(l, acts, observations, random) ==
    LET stateChanged == hasStateChangedUnexpectedly(l, random)
        planValid == isPlanStillValid(l)
        goalReachable == isGoalStillReachable(l, acts)
    IN [stateChanged |-> stateChanged, planValid |-> planValid,
        goalReachable |-> goalReachable,
        needsReplanning |-> \/ stateChanged
                            \/ ~planValid
                            \/ ~goalReachable
                            \/ Len(observations.anomalies) > 0]

\* a decide that does not look at needsReplanning
decideWithoutReplan(l, analysis) ==
    IF l.currentStep >= Len(l.currentPlan[1])
    THEN [action |-> "complete", reason |-> "All actions completed"]
    ELSE [action |-> "continue", reason |-> "Plan execution proceeding normally"]

\* decide(analysis)
decide(l, analysis) ==
    IF analysis.needsReplanning
    THEN [action |-> "replan", reason |-> "Conditions changed, replanning required"]
    ELSE IF l.currentStep >= Len(l.currentPlan[1])
    THEN [action |-> "complete", reason |-> "All actions completed"]
    ELSE [action |-> "continue", reason |-> "Plan execution proceeding normally"]

\* an execute that succeeds for every execution type
executeAlways(a) == <<TRUE, [success |-> TRUE, type |-> a.executionType]>>

\* GOAPAction.execute(context): <<TRUE, result>>, or <<FALSE, message>> for
\* the Error of line 85
execute(a) ==
    IF a.executionType = "code" THEN <<TRUE, [success |-> TRUE, type |-> "code"]>>
    ELSE IF a.executionType = "llm" THEN <<TRUE, [success |-> TRUE, type |-> "llm"]>>
    ELSE IF a.executionType = "hybrid" THEN <<TRUE, [success |-> TRUE, type |-> "hybrid"]>>
    ELSE <<FALSE, <<"Unknown execution type", a.executionType>>>>

\* an error entry that counts steps from 1
ErrorEntryOneBased(l, action, message) ==
    [step |-> l.currentStep + 1, action |-> action.name, error |-> message]

\* lines 397-402: the entry pushed by the catch clause
ErrorEntry(l, action, message) ==
    [step |-> l.currentStep, action |-> action.name, error |-> message]

\* an executeNextAction that moves on to the next step after a failure
executeNextActionSkipsFailed(l) ==
    IF l.currentStep >= Len(l.currentPlan[1]) THEN l
    ELSE LET action == l.currentPlan[1][l.currentStep + 1]
             result == execute(action)
             applied == apply(action, l.worldState[1])
         IN IF ~result[1]
            THEN [l EXCEPT !.executionHistory =
                               Append(@, ErrorEntry(l, action, result[2])),
                           !.currentStep = @ + 1]
            ELSE IF ~applied[1]
            THEN [l EXCEPT !.executionHistory =
                               Append(@, ErrorEntry(l, action,
                                   <<"not applicable in current state", action.name>>)),
                           !.currentStep = @ + 1]
            ELSE [l EXCEPT !.worldState = NonNull(applied[2]),
                           !.executionHistory =
                               Append(@, [step |-> l.currentStep,
                                          action |-> action.name,
                                          result |-> result[2]]),
                           !.currentStep = @ + 1]

\* an executeNextAction that applies the effects before it awaits execute
executeNextActionAppliesFirst(l) ==
    IF l.currentStep >= Len(l.currentPlan[1]) THEN l
    ELSE LET action == l.currentPlan[1][l.currentStep + 1]
             result == execute(action)
             applied == apply(action, l.worldState[1])
         IN IF ~applied[1]
            THEN [l EXCEPT !.executionHistory =
                               Append(@, ErrorEntry(l, action,
                                   <<"not applicable in current state", action.name>>))]
            ELSE IF ~result[1]
            THEN [l EXCEPT !.worldState = NonNull(applied[2]),
                           !.executionHistory =
                               Append(@, ErrorEntry(l, action, result[2]))]
            ELSE [l EXCEPT !.worldState = NonNull(applied[2]),
                           !.executionHistory =
                               Append(@, [step |-> l.currentStep,
                                          action |-> action.name,
                                          result |-> result[2]]),
                           !.currentStep = @ + 1]

\* executeNextAction()
executeNextAction(l) ==
    IF l.currentStep >= Len(l.currentPlan[1]) THEN l
    ELSE LET action == l.currentPlan[1][l.currentStep + 1]
             result == execute(action)
             applied == apply(action, l.worldState[1])
         IN IF ~result[1]
            THEN [l EXCEPT !.executionHistory =
                               Append(@, ErrorEntry(l, action, result[2]))]
            ELSE IF ~applied[1]
            THEN [l EXCEPT !.executionHistory =
                               Append(@, ErrorEntry(l, action,
                                   <<"not applicable in current state", action.name>>))]
            ELSE [l EXCEPT !.worldState = NonNull(applied[2]),
                           !.executionHistory =
                               Append(@, [step |-> l.currentStep,
                                          action |-> action.name,
                                          result |-> result[2]]),
                           !.currentStep = @ + 1]

\* a replan that installs the new plan without resetting currentStep
replanKeepsStep(l, acts) ==
    LET newPlan == generatePlan(acts, l.worldState[1], l.goalState[1])
    IN IF newPlan.pc = "plan"
       THEN [l EXCEPT !.currentPlan = NonNull(newPlan.plan),
                      !.executionHistory =
                          Append(@, [step |-> "replan", action |-> "plan_updated",
                                     newPlan |-> Names(newPlan.plan)])]
       ELSE [l EXCEPT !.monitoring = FALSE]

\* replan()
replan(l, acts) ==
    LET newPlan == generatePlan(acts, l.worldState[1], l.goalState[1])
    IN IF newPlan.pc = "plan"
       THEN [l EXCEPT !.currentPlan = NonNull(newPlan.plan),
                      !.currentStep = 0,
                      !.executionHistory =
                          Append(@, [step |-> "replan", action |-> "plan_updated",
                                     newPlan |-> Names(newPlan.plan)])]
       ELSE [l EXCEPT !.monitoring = FALSE]

\* an act that stops the loop when the executed step has failed
actStopsOnFailure(l, acts, decision) ==
    IF decision.action = "replan" THEN replan(l, acts)
    ELSE IF decision.action = "continue"
    THEN [executeNextAction(l) EXCEPT
             !.monitoring = (detectAnomalies(executeNextAction(l)) = <<>>)]
    ELSE IF decision.action = "complete" THEN [l EXCEPT !.monitoring = FALSE]
    ELSE l

\* act(decision)
act(l, acts, decision) ==
    IF decision.action = "replan" THEN replan(l, acts)
    ELSE IF decision.action = "continue" THEN executeNextAction(l)
    ELSE IF decision.action = "complete" THEN [l EXCEPT !.monitoring = FALSE]
    ELSE l

(***************************************************************************)
(* The agent module (src/unnamed/part_002): its GOAPPlanner.  A world      *)
(* state, a goal, preconditions and effects are Maps, written as sequences *)
(* of <<key, value>> in insertion order.  An action definition is a record *)
(* of name, preconditions, effects and cost, with "rejects" telling        *)
(* whether the execute callback given by the caller rejects.               *)
(***************************************************************************)
maxPlanDepth == 10

\* the proposition names of the agent's callers in ascending order of their
\* code units, which is the order of Array.prototype.sort on the entries
PropositionOrder ==
    <<"a", "b", "c", "intent_processed", "p0", "p1", "p10", "p11", "p12", "p2",
      "p3", "p4", "p5", "p6", "p7", "p8", "p9", "task_complete">>

ActionDef(name, preconditions, effects, cost, rejects) ==
    [name |-> name, preconditions |-> preconditions, effects |-> effects,
     cost |-> cost, rejects |-> rejects]

\* calculateHeuristic(state, goals)
calculateHeuristic(state, goals) ==
    Cardinality({i \in 1..Len(goals) :
                    ~MapHas(state, goals[i][1])
                    \/ MapGet(state, goals[i][1]) # goals[i][2]})

\* goalsSatisfied(state, goals)
goalsSatisfied(state, goals) ==
    \A i \in 1..Len(goals) :
        MapHas(state, goals[i][1]) /\ MapGet(state, goals[i][1]) = goals[i][2]

\* actionApplicable(action, state); preconditions is always a Map here
actionApplicable(action, state) ==
    \A i \in 1..Len(action.preconditions) :
        /\ MapHas(state, action.preconditions[i][1])
        /\ MapGet(state, action.preconditions[i][1]) = action.preconditions[i][2]

\* lines 131-133: newState.set(key, value) for the effects from index i on
RECURSIVE SetEffects(_, _, _)
SetEffects(state, effects, i) ==
    IF i > Len(effects) THEN state
    ELSE SetEffects(MapSet(state, effects[i][1], effects[i][2]), effects, i + 1)

\* applyAction(action, state): a new Map, the argument is left as it is
applyAction(action, state) == SetEffects(state, action.effects, 1)

RECURSIVE SortedEntries(_, _)
SortedEntries(state, i) ==
    IF i > Len(PropositionOrder) THEN <<>>
    ELSE SelectSeq(state, LAMBDA e : e[1] = PropositionOrder[i])
         \o SortedEntries(state, i + 1)

\* a key that lists the entries in insertion order
serializeStateUnsorted(state) == state

\* serializeState(state): JSON.stringify([...state].sort()), written as the
\* sorted sequence of the entries
serializeState(state) == SortedEntries(state, 1)

\* line 73: action.cost || 1
CostOrOne(cost) == IF cost = 0 THEN 1 ELSE cost

\* lines 36-43: the frontier holds the start node.  "expanded" lists the
\* nodes that have passed line 64, in that order.
BeginPlan(worldState, goals) ==
    [pc |-> "loop", goals |-> goals,
     openSet |-> << [state |-> worldState, actions |-> <<>>, cost |-> 0,
                     heuristic |-> calculateHeuristic(worldState, goals)] >>,
     closedSet |-> {}, expanded |-> <<>>, ret |-> <<>>]

FScore(node) == node.cost + node.heuristic

\* line 47: openSet.sort by f-score; the sort is stable
RECURSIVE SortByFScore(_)
SortByFScore(open) ==
    IF open = <<>> THEN <<>>
    ELSE LET c == CHOOSE c \in {FScore(open[i]) : i \in 1..Len(open)} :
                      \A i \in 1..Len(open) : c <= FScore(open[i])
         IN SelectSeq(open, LAMBDA n : FScore(n) = c)
            \o SortByFScore(SelectSeq(open, LAMBDA n : FScore(n) # c))

\* a depth test that never stops a node
DepthReachedNever(node) == FALSE

\* line 56: current.actions.length >= this.maxPlanDepth
DepthReached(node) == Len(node.actions) >= maxPlanDepth

\* lines 70-75: the node pushed for an applicable action
NewNode(current, action, goals) ==
    LET newState == applyAction(action, current.state)
    IN [state |-> newState,
        actions |-> Append(current.actions, action),
        cost |-> current.cost + CostOrOne(action.cost),
        heuristic |-> calculateHeuristic(newState, goals)]

\* lines 46-78: one pass of the while loop over a frontier that is not empty
PlanBody(s, acts) ==
    LET sorted == SortByFScore(s.openSet)
        current == Head(sorted)
        s1 == [s EXCEPT !.openSet = Tail(sorted)]
        stateKey == serializeState(current.state)
        applicable == SelectSeq(acts, LAMBDA a : actionApplicable(a, current.state))
    IN IF goalsSatisfied(current.state, s.goals)
       THEN [s1 EXCEPT !.pc = "plan", !.ret = current.actions]
       ELSE IF DepthReached(current) THEN s1
       ELSE IF stateKey \in s.closedSet THEN s1
       ELSE [s1 EXCEPT
                !.closedSet = @ \cup {stateKey},
                !.expanded = Append(@, current),
                !.openSet = @ \o [j \in 1..Len(applicable) |->
                                     NewNode(current, applicable[j], s.goals)]]

\* one pass through the while statement of line 45, or the return of line 81
PlanStep(s, acts) ==
    IF s.pc # "loop" THEN s
    ELSE IF Len(s.openSet) > 0 THEN PlanBody(s, acts)
    ELSE [s EXCEPT !.pc = "null"]

\* up to n passes, stopping at the return
RECURSIVE RunPlan(_, _, _)
RunPlan(s, acts, n) ==
    IF s.pc # "loop" THEN s
    ELSE IF n = 1 THEN PlanStep(s, acts)
    ELSE RunPlan(RunPlan(s, acts, n \div 2), acts, n - (n \div 2))

\* the number of passes that a call of plan is followed for; the loop of line
\* 45 has no cap of its own, and a result still at "loop" means that the call
\* had not returned by then
PlanPasses == 2048

\* GOAPPlanner.plan(worldState, goals, actions) run to its return
GOAPPlanner_plan(worldState, goals, acts) ==
    RunPlan(BeginPlan(worldState, goals), acts, PlanPasses)

(***************************************************************************)
(* The agent module: GoalOrientedAgent.  The object is a record of its     *)
(* fields; pc is the position of the call in progress, and mode, input,    *)
(* goal, plan, index, results, decision and error are the argument, the    *)
(* locals and the outcome of that call.  index is the 0-based position of  *)
(* the loop over the plan.                                                 *)
(***************************************************************************)
NoAgentDecision == [proceed |-> TRUE, reason |-> ""]

\* the constructor, for config.replanning
NewGoalOrientedAgent(replanning) ==
    [actions |-> <<>>, goals |-> <<>>, worldState |-> <<>>,
     replanning |-> replanning,
     pc |-> "idle", mode |-> "", input |-> "", goal |-> <<>>, plan |-> <<>>,
     index |-> 0,
     results |-> <<>>, decision |-> NoAgentDecision, error |-> ""]

\* new GoalOrientedAgent(): replanning is on unless the config turns it off
GoalOrientedAgent == NewGoalOrientedAgent(TRUE)

\* defineAction(action): cost is action.cost || 1
defineAction(ag, action) ==
    [ag EXCEPT !.actions = Append(@, [action EXCEPT !.cost = CostOrOne(@)])]

\* defineGoal(goal)
defineGoal(ag, goal) == [ag EXCEPT !.goals = Append(@, goal)]

\* setState(state)
setState(ag, state) == [ag EXCEPT !.worldState = ObjectEntries(state)]

\* array.find(x => x.name === name): <<x>> for the first match, <<>> for none
FindByName(array, name) ==
    IF \E i \in 1..Len(array) : array[i].name = name
    THEN <<array[CHOOSE i \in 1..Len(array) :
                     /\ array[i].name = name
                     /\ \A j \in 1..(i - 1) : array[j].name # name]>>
    ELSE <<>>

\* plan.indexOf(action), counted from 1: the first occurrence
IndexOf(array, x) ==
    CHOOSE i \in 1..Len(array) :
        array[i] = x /\ \A j \in 1..(i - 1) : array[j] # x

\* plan.splice(start, plan.length, ...items): the first start elements, then
\* the items
SpliceTail(array, start, items) == SubSeq(array, 1, start) \o items

\* getRemainingGoals(targetGoals)
getRemainingGoals(ag, targetGoals) ==
    SelectSeq(targetGoals,
              LAMBDA g : ~MapHas(ag.worldState, g[1])
                         \/ MapGet(ag.worldState, g[1]) # g[2])

\* an executeFocused that applies the effects before it awaits the callback
executeFocusedAppliesFirst(ag, action, rejected) ==
    LET found == FindByName(ag.actions, action)
    IN IF found = <<>>
       THEN [ag EXCEPT !.pc = "threw", !.mode = "focused", !.input = action,
                       !.error = "Action not found"]
       ELSE IF ~actionApplicable(found[1], ag.worldState)
       THEN [ag EXCEPT !.pc = "threw", !.mode = "focused", !.input = action,
                       !.error = "Preconditions not met for action"]
       ELSE IF rejected
       THEN [ag EXCEPT !.pc = "threw", !.mode = "focused", !.input = action, !.error = "rejected",
                       !.worldState = applyAction(found[1], ag.worldState)]
       ELSE [ag EXCEPT !.pc = "returned", !.mode = "focused", !.input = action,
                       !.worldState = applyAction(found[1], ag.worldState),
                       !.results = <<[action |-> action, success |-> TRUE]>>]

\* executeFocused({action, params}); rejected tells the outcome of the
\* callback awaited at line 252
executeFocused(ag, action, rejected) ==
    LET found == FindByName(ag.actions, action)
    IN IF found = <<>>
       THEN [ag EXCEPT !.pc = "threw", !.mode = "focused", !.input = action,
                       !.error = "Action not found"]
       ELSE IF ~actionApplicable(found[1], ag.worldState)
       THEN [ag EXCEPT !.pc = "threw", !.mode = "focused", !.input = action,
                       !.error = "Preconditions not met for action"]
       ELSE IF rejected
       THEN [ag EXCEPT !.pc = "threw", !.mode = "focused", !.input = action, !.error = "rejected"]
       ELSE [ag EXCEPT !.pc = "returned", !.mode = "focused", !.input = action,
                       !.worldState = applyAction(found[1], ag.worldState),
                       !.results = <<[action |-> action, success |-> TRUE]>>]

\* lines 268-283 of executeClosed: the goal is looked up and the plan made
executeClosed(ag, goalName) ==
    LET found == FindByName(ag.goals, goalName)
        made == GOAPPlanner_plan(ag.worldState, found[1].targetState, ag.actions)
    IN IF found = <<>>
       THEN [ag EXCEPT !.pc = "threw", !.mode = "closed", !.input = goalName, !.error = "Goal not found"]
       ELSE IF made.pc # "plan"
       THEN [ag EXCEPT !.pc = "threw", !.mode = "closed", !.input = goalName,
                       !.error = "No plan found to achieve goal"]
       ELSE [ag EXCEPT !.pc = "for", !.mode = "closed", !.input = goalName,
                       !.goal = found[1].targetState, !.plan = made.ret,
                       !.index = 0, !.results = <<>>]

\* lines 284-312: one pass of the loop over the plan; the iterator reads the
\* array as the splices have left it
ClosedPass(ag, rejected) ==
    LET action == ag.plan[ag.index + 1]
        applied == [ag EXCEPT
                       !.worldState = applyAction(action, ag.worldState),
                       !.results = Append(@, [action |-> action.name, success |-> TRUE]),
                       !.index = @ + 1]
        remainingGoals == getRemainingGoals(applied, ag.goal)
        newPlan == GOAPPlanner_plan(applied.worldState, remainingGoals, ag.actions)
        again == GOAPPlanner_plan(ag.worldState, ag.goal, ag.actions)
    IN IF ~rejected
       THEN IF ag.replanning /\ Len(remainingGoals) > 0
               /\ newPlan.pc = "plan" /\ Len(newPlan.ret) > 0
            THEN [applied EXCEPT
                     !.plan = SpliceTail(ag.plan, IndexOf(ag.plan, action), newPlan.ret)]
            ELSE applied
       ELSE IF ~ag.replanning
       THEN [ag EXCEPT !.pc = "threw", !.error = "rejected"]
       ELSE IF again.pc = "plan"
       THEN [ag EXCEPT
                !.plan = SpliceTail(ag.plan, IndexOf(ag.plan, action), again.ret),
                !.index = @ + 1]
       ELSE [ag EXCEPT !.index = @ + 1]

\* deriveGoalsFromIntent(intent)
deriveGoalsFromIntent ==
    << <<"intent_processed", JsTrue>>, <<"task_complete", JsTrue>> >>

\* decomposeGoals(goals): the prefixes of the entries
decomposeGoals(goals) == [i \in 1..Len(goals) |-> SubSeq(goals, 1, i)]

\* lines 342-347: the plans of the sub-goals from index i on, one after the
\* other, each made from the present worldState
RECURSIVE CompositePlan(_, _, _)
CompositePlan(ag, subGoals, i) ==
    IF i > Len(subGoals) THEN <<>>
    ELSE LET subPlan == GOAPPlanner_plan(ag.worldState, subGoals[i], ag.actions)
         IN (IF subPlan.pc = "plan" THEN subPlan.ret ELSE <<>>)
            \o CompositePlan(ag, subGoals, i + 1)

\* executeOpen({intent}) up to its call of executePlan
executeOpen(ag) ==
    LET derivedGoals == deriveGoalsFromIntent
        made == GOAPPlanner_plan(ag.worldState, derivedGoals, ag.actions)
        compositePlan == CompositePlan(ag, decomposeGoals(derivedGoals), 1)
        entered == [ag EXCEPT !.pc = "for", !.mode = "open", !.goal = derivedGoals,
                              !.index = 0, !.results = <<>>]
    IN IF made.pc = "plan" THEN [entered EXCEPT !.plan = made.ret]
       ELSE IF compositePlan = <<>>
       THEN [ag EXCEPT !.pc = "threw", !.mode = "open",
                       !.error = "No plan found for intent"]
       ELSE [entered EXCEPT !.plan = compositePlan]

\* decide(action, goals)
GoalOrientedAgent_decide(ag, action, goals) ==
    LET futureState == applyAction(action, ag.worldState)
        currentDistance == calculateHeuristic(ag.worldState, goals)
        futureDistance == calculateHeuristic(futureState, goals)
    IN IF ~actionApplicable(action, ag.worldState)
       THEN [proceed |-> FALSE, reason |-> "Preconditions no longer met"]
       ELSE IF futureDistance >= currentDistance
       THEN [proceed |-> FALSE, reason |-> "Action does not improve goal progress"]
       ELSE [proceed |-> TRUE, reason |-> ""]

\* act(action): the rejection of the callback is caught
GoalOrientedAgent_act(action, rejected) ==
    [action |-> action.name, success |-> ~rejected]

\* lines 393-417: one pass of the loop of executePlan
PlanPass(ag, rejected) ==
    LET action == ag.plan[ag.index + 1]
        decision == GoalOrientedAgent_decide(ag, action, ag.goal)
        remainingGoals == getRemainingGoals(ag, ag.goal)
        newPlan == GOAPPlanner_plan(ag.worldState, remainingGoals, ag.actions)
    IN IF ~decision.proceed /\ newPlan.pc = "plan"
       THEN [ag EXCEPT !.decision = decision,
                       !.plan = SpliceTail(ag.plan, ag.index, newPlan.ret)]
       ELSE [ag EXCEPT !.decision = decision,
                       !.results = Append(@, GoalOrientedAgent_act(action, rejected)),
                       !.worldState = applyAction(action, ag.worldState),
                       !.index = @ + 1]

(***************************************************************************)
(* The callers' inputs                                                     *)
(***************************************************************************)
\* the actions of Scenarios A and B, a costly follow-up step, and two ways
\* of reaching "deployed" that differ in cost
ActionPool ==
    { GOAPAction("create", <<>>, << <<"exists", JsTrue>> >>, 1, "code"),
      GOAPAction("code", << <<"exists", JsTrue>> >>, << <<"coded", JsTrue>> >>, 3, "llm"),
      GOAPAction("deploy", << <<"coded", JsTrue>> >>, << <<"deployed", JsTrue>> >>, 2, "code"),
      GOAPAction("quickdeploy", << <<"coded", JsTrue>> >>, << <<"deployed", JsTrue>> >>, 1, "code"),
      GOAPAction("migrate", << <<"deployed", JsTrue>> >>, << <<"migrated", JsTrue>> >>, 15, "hybrid"),
      GOAPAction("buy", <<>>, << <<"deployed", JsTrue>> >>, 2, "code"),
      GOAPAction("publish", << <<"exists", JsTrue>> >>, << <<"deployed", JsTrue>> >>, 0, "code") }

MaxActions == 4

StartStates ==
    { <<>>,
      << <<"exists", JsTrue>>, <<"coded", JsFalse>> >>,
      << <<"coded", JsFalse>>, <<"exists", JsTrue>> >> }

GoalStates ==
    { << <<"deployed", JsTrue>> >>,
      << <<"migrated", JsTrue>> >>,
      << <<"deployed", JsTrue>>, <<"exists", JsTrue>> >> }

(***************************************************************************)
(* The planner as a state machine                                          *)
(***************************************************************************)
\* no call on a state object has been made yet
NoOp == [op |-> "none", ref |-> 0, key |-> "", value |-> "", effects |-> <<>>,
         ret |-> 0]

Init ==
    /\ actions = <<>>
    /\ search = NoSearch
    /\ heap = <<>>
    /\ lastOp = NoOp
    /\ loop = OODALoop
    /\ agent = GoalOrientedAgent

\* planner.addAction(a), outside any generatePlan call
AddAction(a) ==
    /\ search.pc = "idle"
    /\ actions' = addAction(actions, a)
    /\ UNCHANGED <<search, heap, lastOp, loop, agent>>

\* planner.generatePlan(start, goal) is entered
CallGeneratePlan(start, goal) ==
    /\ search.pc = "idle"
    /\ search' = BeginSearch(NewGOAPState(start), NewGOAPState(goal))
    /\ UNCHANGED <<actions, heap, lastOp, loop, agent>>

LoopIteration ==
    /\ search.pc = "loop"
    /\ LoopCondition(search)
    /\ search' = LoopBody(search, actions)
    /\ UNCHANGED <<actions, heap, lastOp, loop, agent>>

LoopExit ==
    /\ search.pc = "loop"
    /\ ~LoopCondition(search)
    /\ search' = LoopEnd(search)
    /\ UNCHANGED <<actions, heap, lastOp, loop, agent>>

\* the caller has taken the result; the locals of the call are gone
Return ==
    /\ search.pc \in {"plan", "null", "threw"}
    /\ search' = NoSearch
    /\ UNCHANGED <<actions, heap, lastOp, loop, agent>>

Next ==
    \/ \E a \in ActionPool :
           Len(addAction(actions, a)) <= MaxActions /\ AddAction(a)
    \/ \E start \in StartStates, goal \in GoalStates : CallGeneratePlan(start, goal)
    \/ LoopIteration
    \/ LoopExit
    \/ Return

Spec == Init /\ [][Next]_vars

(***************************************************************************)
(* A repertoire large enough for the iteration cap: independent zero-cost  *)
(* actions without preconditions, registered in the order of SetterKeys.   *)
(* generatePlan is synchronous, so a call is one step of its caller.       *)
(***************************************************************************)
SetterKeys == <<"k1", "k2", "k3", "k4", "k5", "k6", "k7">>

NumSetters == 5

Setter(i) == GOAPAction(SetterKeys[i], <<>>, << <<SetterKeys[i], JsTrue>> >>, 0, "code")

\* the start states that hold some of the keys already
SetterStarts ==
    {SelectSeq([i \in 1..NumSetters |-> <<SetterKeys[i], JsTrue>>],
               LAMBDA e : e[1] \in K) :
        K \in SUBSET {SetterKeys[i] : i \in 1..NumSetters}}

\* a goal that no action produces, and one that two actions produce
SetterGoals ==
    { << <<"never", JsTrue>> >>,
      << <<SetterKeys[1], JsTrue>>, <<SetterKeys[2], JsTrue>> >> }

AddSetter ==
    /\ Len(actions) < NumSetters
    /\ AddAction(Setter(Len(actions) + 1))

\* planner.generatePlan(start, goal), from call to return
GeneratePlanCall(start, goal) ==
    /\ search.pc = "idle"
    /\ search' = generatePlan(actions, NewGOAPState(start), NewGOAPState(goal))
    /\ UNCHANGED <<actions, heap, lastOp, loop, agent>>

NextCap ==
    \/ AddSetter
    \/ \E start \in SetterStarts, goal \in SetterGoals : GeneratePlanCall(start, goal)
    \/ Return

SpecCap == Init /\ [][NextCap]_vars

(***************************************************************************)
(* GOAPState objects in the hands of a caller: created from literals,      *)
(* cloned, changed with set and derived with applyEffects.  lastOp is the  *)
(* last call made and the reference it returned (0 for no result).         *)
(***************************************************************************)
MaxObjects == 2

StateKeys == {"a", "1"}

\* true, 0 and the empty string
StateValues == {JsTrue, "0", "''"}

\* object literals passed to the constructor
StateLiterals == { <<>>, << <<"a", JsTrue>> >> }

\* effects objects, in property order
EffectsObjects ==
    { <<>>,
      << <<"a", "0">> >>,
      << <<"1", JsTrue>> >>,
      << <<"1", JsFalse>>, <<"a", JsTrue>> >> }

Op(op, ref, key, value, effects, ret) ==
    [op |-> op, ref |-> ref, key |-> key, value |-> value, effects |-> effects,
     ret |-> ret]

\* new GOAPState(obj)
CallNew(obj) ==
    /\ Len(heap) < MaxObjects
    /\ heap' = Append(heap, NewGOAPState(obj))
    /\ lastOp' = Op("new", 0, "", "", obj, Len(heap) + 1)
    /\ UNCHANGED <<actions, search, loop, agent>>

\* r.clone()
CallClone(r) ==
    /\ Len(heap) < MaxObjects
    /\ heap' = clone(heap, r)[1]
    /\ lastOp' = Op("clone", r, "", "", <<>>, clone(heap, r)[2])
    /\ UNCHANGED <<actions, search, loop, agent>>

\* r.set(key, value)
CallSet(r, key, value) ==
    /\ heap' = set(heap, r, key, value)
    /\ lastOp' = Op("set", r, key, value, <<>>, 0)
    /\ UNCHANGED <<actions, search, loop, agent>>

\* r.applyEffects(effects)
CallApplyEffects(r, effects) ==
    /\ Len(heap) < MaxObjects
    /\ heap' = applyEffects(heap, r, effects)[1]
    /\ lastOp' = Op("applyEffects", r, "", "", effects, applyEffects(heap, r, effects)[2])
    /\ UNCHANGED <<actions, search, loop, agent>>

\* actions whose preconditions some states satisfy and others do not
StateActions ==
    { GOAPAction("needsA", << <<"a", JsTrue>> >>, << <<"1", JsTrue>> >>, 1, "code"),
      GOAPAction("needsBoth", << <<"1", JsTrue>>, <<"a", JsTrue>> >>,
                 << <<"a", "0">> >>, 1, "code"),
      GOAPAction("free", <<>>, << <<"a", JsTrue>> >>, 1, "code") }

\* a call of a.apply(r): threw tells whether it ended with the Error
ApplyOp(a, r, ret, threw) ==
    [op |-> "apply", ref |-> r, key |-> "", value |-> "", effects |-> a.effects,
     ret |-> ret, action |-> a, threw |-> threw]

\* a.apply(r): the Error of line 69, or the object that line 71 returns
CallApply(a, r) ==
    /\ IF ~apply(a, heap[r])[1]
       THEN /\ heap' = heap
            /\ lastOp' = ApplyOp(a, r, 0, TRUE)
       ELSE /\ Len(heap) < MaxObjects
            /\ heap' = applyEffects(heap, r, a.effects)[1]
            /\ lastOp' = ApplyOp(a, r, applyEffects(heap, r, a.effects)[2], FALSE)
    /\ UNCHANGED <<actions, search, loop, agent>>

NextState ==
    \/ \E obj \in StateLiterals : CallNew(obj)
    \/ \E r \in 1..Len(heap) : CallClone(r)
    \/ \E r \in 1..Len(heap), key \in StateKeys, value \in StateValues :
           CallSet(r, key, value)
    \/ \E r \in 1..Len(heap), effects \in EffectsObjects : CallApplyEffects(r, effects)
    \/ \E r \in 1..Len(heap), a \in StateActions : CallApply(a, r)

SpecState == Init /\ [][NextState]_vars

(***************************************************************************)
(* An OODALoop in the hands of a caller, as in the demonstrations: the     *)
(* planner's repertoire is registered, the caller assigns a plan that the  *)
(* planner returned, a live state and a goal to the fields of the loop,    *)
(* and calls runOODALoop.  One pass of the while loop is the steps         *)
(* LoopTest, Observe, Orient, Decide, Act.                                 *)
(***************************************************************************)
\* two independent actions, a chain of two, and one whose execution type is
\* none of 'code', 'llm', 'hybrid'
LoopPool ==
    { GOAPAction("create", <<>>, << <<"exists", JsTrue>> >>, 1, "code"),
      GOAPAction("code", << <<"exists", JsTrue>> >>, << <<"coded", JsTrue>> >>, 3, "llm"),
      GOAPAction("buy", <<>>, << <<"deployed", JsTrue>> >>, 2, "code"),
      GOAPAction("review", <<>>, << <<"reviewed", JsTrue>> >>, 1, "manual") }

LoopStarts == { <<>>, << <<"exists", JsTrue>> >> }

LoopGoals ==
    { << <<"coded", JsTrue>> >>,
      << <<"exists", JsTrue>>, <<"deployed", JsTrue>> >>,
      << <<"reviewed", JsTrue>> >> }

\* a pass of the loop is begun only while executionHistory is shorter
MaxHistory == 4

\* planner.addAction(a), before the loop is set up
RegisterAction(a) ==
    /\ loop.pc = "constructed"
    /\ AddAction(a)

\* plan = planner.generatePlan(start, planned); if (!plan) return;
\* loop.currentPlan = plan; loop.worldState = start.clone();
\* loop.goalState = goal.  The fields are assigned by the caller, so the
\* goal given to the loop need not be the one the plan was made for.
Setup(start, planned, goal) ==
    LET plan == generatePlan(actions, NewGOAPState(start), NewGOAPState(planned))
    IN /\ loop.pc = "constructed"
       /\ plan.pc = "plan"
       /\ loop' = [loop EXCEPT
                      !.currentPlan = NonNull(plan.plan),
                      !.worldState = NonNull(clone(<<NewGOAPState(start)>>, 1)[1][2]),
                      !.goalState = NonNull(NewGOAPState(goal)),
                      !.pc = "ready"]
       /\ UNCHANGED <<actions, search, heap, lastOp, agent>>

\* runOODALoop() is called: line 478
RunOODALoop ==
    /\ loop.pc \in {"constructed", "ready"}
    /\ loop' = [loop EXCEPT !.monitoring = TRUE, !.pc = "while"]
    /\ UNCHANGED <<actions, search, heap, lastOp, agent>>

\* a loop test that does not read the flag
LoopTestIgnoresFlag ==
    /\ loop.pc = "while"
    /\ Len(loop.executionHistory) < MaxHistory
    /\ loop' = [loop EXCEPT !.pc = "observe"]
    /\ UNCHANGED <<actions, search, heap, lastOp, agent>>

\* line 480: while (this.monitoring); the call returns when it is false
LoopTest ==
    /\ loop.pc = "while"
    /\ loop.monitoring => Len(loop.executionHistory) < MaxHistory
    /\ loop' = [loop EXCEPT !.pc = IF loop.monitoring THEN "observe" ELSE "returned"]
    /\ UNCHANGED <<actions, search, heap, lastOp, agent>>

\* line 482; this.worldState.clone() is a TypeError while worldState is null
Observe ==
    /\ loop.pc = "observe"
    /\ loop' = IF loop.worldState = Null THEN [loop EXCEPT !.pc = "threw"]
               ELSE [loop EXCEPT !.observations = observe(loop), !.pc = "orient"]
    /\ UNCHANGED <<actions, search, heap, lastOp, agent>>

\* line 485
Orient ==
    /\ loop.pc = "orient"
    /\ \E random \in BOOLEAN :
           loop' = [loop EXCEPT
                       !.analysis = orient(loop, actions, loop.observations, random),
                       !.pc = "decide"]
    /\ UNCHANGED <<actions, search, heap, lastOp, agent>>

\* line 488
Decide ==
    /\ loop.pc = "decide"
    /\ loop' = [loop EXCEPT !.decision = decide(loop, loop.analysis), !.pc = "act"]
    /\ UNCHANGED <<actions, search, heap, lastOp, agent>>

\* lines 491-495: the decision is acted on and the pass ends; its locals go
\* out of scope
Act ==
    /\ loop.pc = "act"
    /\ loop' = [act(loop, actions, loop.decision) EXCEPT
                   !.observations = NoObservations, !.analysis = NoAnalysis,
                   !.decision = NoDecision, !.pc = "while"]
    /\ UNCHANGED <<actions, search, heap, lastOp, agent>>

NextLoop ==
    \/ \E a \in LoopPool : RegisterAction(a)
    \/ \E start \in LoopStarts, planned \in LoopGoals, goal \in LoopGoals :
           Setup(start, planned, goal)
    \/ RunOODALoop
    \/ LoopTest
    \/ Observe
    \/ Orient
    \/ Decide
    \/ Act

SpecLoop == Init /\ [][NextLoop]_vars

(***************************************************************************)
(* An OODALoop whose caller acts while the loop is suspended.  The loop is *)
(* set up with the plan made for its goal; executeNextAction is suspended  *)
(* at the await of line 380 while execute is in flight, and the pass is    *)
(* suspended at the delay of line 494.  The caller may clear the           *)
(* monitoring flag while an execution is in flight, and may once, between  *)
(* two passes, register a further action and replace the goal by one that  *)
(* also requires that action's effect.                                     *)
(***************************************************************************)
\* the action registered by the change of requirements
NewAction ==
    GOAPAction("patch", << <<"exists", JsTrue>> >>,
               << <<"verified", JsTrue>>, <<"exists", JsTrue>> >>, 3, "hybrid")

\* the goal with the propositions of the effects object added
RequireAlso(goal, effects) ==
    goal \o SelectSeq(effects, LAMBDA e : ~MapHas(goal, e[1]))

\* act(decision) for a decision that is acted on without suspension
ActNow ==
    /\ loop.decision.action # "continue"
    /\ Act

\* act(decision) for Continue, up to the await of line 380
StartExecute ==
    /\ loop.pc = "act"
    /\ loop.decision.action = "continue"
    /\ loop' = IF loop.currentStep >= Len(loop.currentPlan[1])
               THEN [loop EXCEPT !.observations = NoObservations,
                                 !.analysis = NoAnalysis,
                                 !.decision = NoDecision, !.pc = "while"]
               ELSE [loop EXCEPT !.pc = "executing"]
    /\ UNCHANGED <<actions, search, heap, lastOp, agent>>

\* execute has settled: lines 380-403, and the pass ends
FinishExecute ==
    /\ loop.pc = "executing"
    /\ loop' = [executeNextAction(loop) EXCEPT
                   !.observations = NoObservations, !.analysis = NoAnalysis,
                   !.decision = NoDecision, !.pc = "while"]
    /\ UNCHANGED <<actions, search, heap, lastOp, agent>>

\* the caller's loop.monitoring = false, while execute is in flight
Stop ==
    /\ loop.pc = "executing"
    /\ loop.monitoring
    /\ loop' = [loop EXCEPT !.monitoring = FALSE]
    /\ UNCHANGED <<actions, search, heap, lastOp, agent>>

\* the caller's planner.addAction(NewAction) and loop.goalState = newGoal,
\* between two passes of a running loop
ChangeRequirements ==
    /\ loop.pc = "while"
    /\ loop.monitoring
    /\ loop.goalState # Null
    /\ \A i \in 1..Len(actions) : actions[i].name # NewAction.name
    /\ actions' = addAction(actions, NewAction)
    /\ loop' = [loop EXCEPT
                   !.goalState = NonNull(NewGOAPState(
                                     RequireAlso(loop.goalState[1], NewAction.effects)))]
    /\ UNCHANGED <<search, heap, lastOp, agent>>

NextCaller ==
    \/ \E a \in LoopPool : RegisterAction(a)
    \/ \E start \in LoopStarts, goal \in LoopGoals : Setup(start, goal, goal)
    \/ RunOODALoop
    \/ LoopTest
    \/ Observe
    \/ Orient
    \/ Decide
    \/ ActNow
    \/ StartExecute
    \/ FinishExecute
    \/ Stop
    \/ ChangeRequirements

SpecCaller == Init /\ [][NextCaller]_vars

(***************************************************************************)
(* analyzePlan called on the plans that a caller can hold: sequences of    *)
(* up to MaxPlanLength actions, with repetitions.  lastOp is the plan,     *)
(* then the call and the analysis it returned.                             *)
(***************************************************************************)
\* four actions that do not touch one another, of the three execution types
\* and of an unknown one; one that requires what "build" produces; and one
\* that produces what "build" produces
AnalysisPool ==
    { GOAPAction("build", <<>>, << <<"built", JsTrue>> >>, 1, "code"),
      GOAPAction("think", <<>>, << <<"designed", JsTrue>> >>, 2, "llm"),
      GOAPAction("scan", <<>>, << <<"scanned", JsTrue>> >>, 3, "hybrid"),
      GOAPAction("sign", <<>>, << <<"signed", JsTrue>> >>, 0, "manual"),
      GOAPAction("ship", << <<"built", JsTrue>> >>, << <<"shipped", JsTrue>> >>, 2, "code"),
      GOAPAction("rebuild", << <<"designed", JsTrue>> >>, << <<"built", JsTrue>> >>, 1, "llm") }

MaxPlanLength == 4

\* the plans of exactly n actions
RECURSIVE PlansOfLength(_)
PlansOfLength(n) ==
    IF n = 0 THEN {<<>>}
    ELSE {Append(plan, a) : plan \in PlansOfLength(n - 1), a \in AnalysisPool}

\* the caller holds a plan that has not been analysed
InitAnalyze ==
    /\ actions = <<>>
    /\ search = NoSearch
    /\ heap = <<>>
    /\ loop = OODALoop
    /\ agent = GoalOrientedAgent
    /\ \E n \in 0..MaxPlanLength : \E plan \in PlansOfLength(n) :
           lastOp = [op |-> "plan", plan |-> plan, ret |-> Null]

\* planner.analyzePlan(plan)
CallAnalyzePlan ==
    /\ lastOp.op = "plan"
    /\ lastOp' = [op |-> "analyzePlan", plan |-> lastOp.plan,
                  ret |-> NonNull(analyzePlan(lastOp.plan))]
    /\ UNCHANGED <<actions, search, heap, loop, agent>>

NextAnalyze == CallAnalyzePlan

SpecAnalyze == InitAnalyze /\ [][NextAnalyze]_vars

(***************************************************************************)
(* addAction called with whatever the caller constructs: actions that      *)
(* share a name, and an action whose cost is negative.                     *)
(***************************************************************************)
RegisterPool ==
    { GOAPAction("create", <<>>, << <<"exists", JsTrue>> >>, 1, "code"),
      GOAPAction("create", <<>>, << <<"exists", JsTrue>> >>, 5, "llm"),
      GOAPAction("buy", <<>>, << <<"deployed", JsTrue>> >>, 2, "code"),
      GOAPAction("buy", << <<"exists", JsTrue>> >>, << <<"deployed", JsTrue>> >>, 0, "code"),
      GOAPAction("refund", << <<"deployed", JsTrue>> >>, << <<"deployed", JsFalse>> >>, -2, "code"),
      GOAPAction("publish", << <<"exists", JsTrue>> >>, << <<"published", JsTrue>> >>, 1, "hybrid") }

\* planner.addAction(a); lastOp is the call
CallAddAction(a) ==
    /\ actions' = addAction(actions, a)
    /\ lastOp' = [op |-> "addAction", action |-> a]
    /\ UNCHANGED <<search, heap, loop, agent>>

NextRegister == \E a \in RegisterPool : CallAddAction(a)

SpecRegister == Init /\ [][NextRegister]_vars

(***************************************************************************)
(* A repertoire in which one state is reached by two paths of different    *)
(* cost: "upgrade" leads to it directly, "stash" then "restore" lead to it *)
(* through a state that is farther from the goal; "finish" is affordable   *)
(* only after the cheaper path.  The actions are registered in any order.  *)
(***************************************************************************)
TwoPathPool ==
    { GOAPAction("upgrade", <<>>,
                 << <<"stashed", JsFalse>>, <<"staged", JsTrue>> >>, 2, "code"),
      GOAPAction("stash", <<>>,
                 << <<"clean", JsFalse>>, <<"stashed", JsTrue>> >>, 1, "code"),
      GOAPAction("restore", << <<"stashed", JsTrue>> >>,
                 << <<"clean", JsTrue>>, <<"stashed", JsFalse>>, <<"staged", JsTrue>> >>,
                 0, "code"),
      GOAPAction("finish", << <<"staged", JsTrue>> >>,
                 << <<"done", JsTrue>> >>, 19, "llm") }

TwoPathStarts ==
    { << <<"clean", JsTrue>> >>,
      << <<"clean", JsTrue>>, <<"stashed", JsFalse>>, <<"staged", JsTrue>> >> }

TwoPathGoals ==
    { << <<"clean", JsTrue>>, <<"done", JsTrue>> >>,
      << <<"staged", JsTrue>> >> }

NextTwoPath ==
    \/ \E a \in TwoPathPool : AddAction(a)
    \/ \E start \in TwoPathStarts, goal \in TwoPathGoals : GeneratePlanCall(start, goal)
    \/ Return

SpecTwoPath == Init /\ [][NextTwoPath]_vars

(***************************************************************************)
(* GOAPPlanner.plan of the agent module called on a caller's inputs: a     *)
(* chain of steps long enough to reach maxPlanDepth, in ascending or       *)
(* descending order, with actions that commute with the steps.  lastOp is  *)
(* the input, then the call and the search it ended with.                  *)
(***************************************************************************)
ChainLength == 11

ChainKeys ==
    <<"p0", "p1", "p2", "p3", "p4", "p5", "p6", "p7", "p8", "p9", "p10", "p11", "p12">>

StepNames ==
    <<"step1", "step2", "step3", "step4", "step5", "step6", "step7", "step8",
      "step9", "step10", "step11", "step12">>

\* step i leads from p(i-1) to p(i)
ChainStep(i) ==
    ActionDef(StepNames[i], << <<ChainKeys[i], JsTrue>> >>,
              << <<ChainKeys[i + 1], JsTrue>> >>, 1, FALSE)

MarkA == ActionDef("markA", <<>>, << <<"a", JsTrue>> >>, 1, FALSE)
MarkB == ActionDef("markB", <<>>, << <<"b", JsTrue>> >>, 0, FALSE)
UnmarkA == ActionDef("unmarkA", <<>>, << <<"a", JsFalse>> >>, 2, FALSE)

\* the action lists: the first n steps, ascending or descending, followed or
\* preceded by actions that commute with them
ChainActionLists ==
    UNION {LET up == [i \in 1..n |-> ChainStep(i)]
               down == [i \in 1..n |-> ChainStep(n + 1 - i)]
           IN {up, down, up \o <<MarkA, MarkB>>, <<MarkB, UnmarkA, MarkA>> \o down} :
           n \in 0..ChainLength}

ChainWorlds ==
    { << <<"p0", JsTrue>> >>,
      << <<"a", JsFalse>>, <<"p0", JsTrue>> >> }

ChainGoals ==
    { << <<"p1", JsTrue>> >>,
      << <<"p10", JsTrue>> >>,
      << <<"p11", JsTrue>> >>,
      << <<"p10", JsTrue>>, <<"a", JsTrue>> >>,
      << <<"c", JsTrue>> >> }

InitPlan ==
    /\ actions = <<>>
    /\ search = NoSearch
    /\ heap = <<>>
    /\ loop = OODALoop
    /\ agent = GoalOrientedAgent
    /\ \E worldState \in ChainWorlds, goals \in ChainGoals, acts \in ChainActionLists :
           lastOp = [op |-> "input", worldState |-> worldState, goals |-> goals,
                     actions |-> acts, ret |-> Null]

\* planner.plan(worldState, goals, actions)
CallPlan ==
    /\ lastOp.op = "input"
    /\ lastOp' = [lastOp EXCEPT
                     !.op = "plan",
                     !.ret = NonNull(GOAPPlanner_plan(lastOp.worldState, lastOp.goals,
                                                      lastOp.actions))]
    /\ UNCHANGED <<actions, search, heap, loop, agent>>

NextPlan == CallPlan

SpecPlan == InitPlan /\ [][NextPlan]_vars

(***************************************************************************)
(* A GoalOrientedAgent in the hands of a caller: actions and goals are     *)
(* defined and the state is set, then one of executeFocused, executeClosed *)
(* and executeOpen is called.  The loops of executeClosed and executePlan  *)
(* take one step per pass, since each pass awaits the callback of an       *)
(* action.                                                                 *)
(***************************************************************************)
\* two cheap actions that each undo what the other achieves, a costlier one
\* that does not, and a chain of three towards the goals of executeOpen whose
\* first callback may reject
AgentPool ==
    { ActionDef("setA", <<>>, << <<"a", JsTrue>>, <<"b", JsFalse>> >>, 1, FALSE),
      ActionDef("setB", <<>>, << <<"b", JsTrue>>, <<"a", JsFalse>> >>, 1, FALSE),
      ActionDef("finishB", << <<"a", JsTrue>> >>, << <<"b", JsTrue>> >>, 5, FALSE),
      ActionDef("prepare", <<>>, << <<"c", JsTrue>> >>, 1, TRUE),
      ActionDef("process", << <<"c", JsTrue>> >>,
                << <<"intent_processed", JsTrue>> >>, 0, FALSE),
      ActionDef("complete", << <<"intent_processed", JsTrue>> >>,
                << <<"task_complete", JsTrue>> >>, 2, FALSE) }

MaxAgentActions == 3

AgentGoals ==
    { [name |-> "both", targetState |-> << <<"a", JsTrue>>, <<"b", JsTrue>> >>],
      [name |-> "done", targetState |-> << <<"task_complete", JsTrue>> >>] }

AgentWorlds ==
    { << <<"c", JsTrue>> >>,
      << <<"a", JsTrue>> >> }

\* the names that a caller passes to executeFocused and executeClosed
RequestedNames == {a.name : a \in AgentPool} \cup {g.name : g \in AgentGoals}

\* the passes of a loop over a plan that are followed
MaxPasses == 6

\* the outcomes that the callback of the action can have
Rejections(action) == IF action.rejects THEN BOOLEAN ELSE {FALSE}

InitAgent ==
    /\ actions = <<>>
    /\ search = NoSearch
    /\ heap = <<>>
    /\ lastOp = NoOp
    /\ loop = OODALoop
    /\ \E replanning \in BOOLEAN : agent = NewGoalOrientedAgent(replanning)

\* agent.defineAction(a); a caller defines an action once
DefineAction(a) ==
    /\ agent.pc = "idle"
    /\ Len(agent.actions) < MaxAgentActions
    /\ FindByName(agent.actions, a.name) = <<>>
    /\ agent' = defineAction(agent, a)
    /\ UNCHANGED <<actions, search, heap, lastOp, loop>>

\* agent.defineGoal(g); a caller defines a goal once
DefineGoal(g) ==
    /\ agent.pc = "idle"
    /\ FindByName(agent.goals, g.name) = <<>>
    /\ agent' = defineGoal(agent, g)
    /\ UNCHANGED <<actions, search, heap, lastOp, loop>>

\* agent.setState(w)
SetState(w) ==
    /\ agent.pc = "idle"
    /\ agent' = setState(agent, w)
    /\ UNCHANGED <<actions, search, heap, lastOp, loop>>

\* agent.executeFocused({action: name}), from call to return
CallExecuteFocused(name) ==
    /\ agent.pc = "idle"
    /\ \E rejected \in IF FindByName(agent.actions, name) = <<>> THEN {FALSE}
                       ELSE Rejections(FindByName(agent.actions, name)[1]) :
           agent' = executeFocused(agent, name, rejected)
    /\ UNCHANGED <<actions, search, heap, lastOp, loop>>

\* agent.executeClosed({goal: name}) up to its loop
CallExecuteClosed(name) ==
    /\ agent.pc = "idle"
    /\ agent' = executeClosed(agent, name)
    /\ UNCHANGED <<actions, search, heap, lastOp, loop>>

\* one pass of the loop of executeClosed
ClosedIteration ==
    /\ agent.pc = "for"
    /\ agent.mode = "closed"
    /\ agent.index < Len(agent.plan)
    /\ agent.index < MaxPasses
    /\ \E rejected \in Rejections(agent.plan[agent.index + 1]) :
           agent' = ClosedPass(agent, rejected)
    /\ UNCHANGED <<actions, search, heap, lastOp, loop>>

\* lines 314-319: the loop of executeClosed is over
ClosedReturn ==
    /\ agent.pc = "for"
    /\ agent.mode = "closed"
    /\ agent.index >= Len(agent.plan)
    /\ agent' = [agent EXCEPT !.pc = "returned"]
    /\ UNCHANGED <<actions, search, heap, lastOp, loop>>

\* agent.executeOpen({intent}) up to the loop of executePlan
CallExecuteOpen ==
    /\ agent.pc = "idle"
    /\ agent' = executeOpen(agent)
    /\ UNCHANGED <<actions, search, heap, lastOp, loop>>

\* one pass of the loop of executePlan
PlanIteration ==
    /\ agent.pc = "for"
    /\ agent.mode = "open"
    /\ agent.index < Len(agent.plan)
    /\ \E rejected \in Rejections(agent.plan[agent.index + 1]) :
           agent' = PlanPass(agent, rejected)
    /\ UNCHANGED <<actions, search, heap, lastOp, loop>>

\* lines 419-423: the loop of executePlan is over
PlanReturn ==
    /\ agent.pc = "for"
    /\ agent.mode = "open"
    /\ agent.index >= Len(agent.plan)
    /\ agent' = [agent EXCEPT !.pc = "returned"]
    /\ UNCHANGED <<actions, search, heap, lastOp, loop>>

NextAgent ==
    \/ \E a \in AgentPool : DefineAction(a)
    \/ \E g \in AgentGoals : DefineGoal(g)
    \/ \E w \in AgentWorlds : SetState(w)
    \/ \E name \in RequestedNames : CallExecuteFocused(name)
    \/ \E name \in RequestedNames : CallExecuteClosed(name)
    \/ ClosedIteration
    \/ ClosedReturn
    \/ CallExecuteOpen
    \/ PlanIteration
    \/ PlanReturn

SpecAgent == InitAgent /\ [][NextAgent]_vars

(***************************************************************************)
(* Reference definitions used to state the properties                      *)
(***************************************************************************)
PlanFinished == search.pc \in {"plan", "null", "threw"}

RegisteredNames == {actions[i].name : i \in 1..Len(actions)}

RECURSIVE PlanCost(_)
PlanCost(plan) == IF plan = <<>> THEN 0 ELSE plan[1].cost + PlanCost(Tail(plan))

\* the state after the effects of the first n actions of plan, from s
RECURSIVE Replay(_, _, _)
Replay(plan, s, n) ==
    IF n = 0 THEN s
    ELSE WithEffects(Replay(plan, s, n - 1), plan[n].effects)

GoalObject == ObjectFromEntries(search.goalState)

\* cheapest known cost per state: one round of relaxation over the repertoire
Cheaper(D) ==
    {d \in D : \A e \in D : e[1] = d[1] => d[2] <= e[2]}

Relax(D, acts) ==
    Cheaper(D \cup
            UNION {{<<WithEffects(d[1], acts[i].effects), d[2] + acts[i].cost>> :
                       i \in {j \in 1..Len(acts) : isApplicable(acts[j], d[1])}} :
                       d \in D})

RECURSIVE CheapestFrom(_, _)
CheapestFrom(D, acts) ==
    IF Relax(D, acts) = D THEN D ELSE CheapestFrom(Relax(D, acts), acts)

\* the costs of the cheapest action sequences from start to each goal state
GoalCosts(acts, start, goal) ==
    {d[2] : d \in {e \in CheapestFrom({<<start, 0>>}, acts) :
                      satisfies(e[1], ObjectFromEntries(goal))}}

\* TRUE iff some action sequence of total cost at most cap reaches the goal
ReachableWithin(acts, start, goal, cap) ==
    \E c \in GoalCosts(acts, start, goal) : c <= cap

(***************************************************************************)
(* Properties of generatePlan                                              *)
(***************************************************************************)
\* C1 (soundness): when generatePlan returns a plan, applying the effects of
\* its actions in order to the start state gives a state that satisfies
\* every proposition of the goal.
Soundness ==
    search.pc = "plan" =>
        satisfies(Replay(search.plan, search.currentState, Len(search.plan)),
                  GoalObject)

\* a plan of at least two actions has been returned
SoundnessWitness == search.pc = "plan" /\ Len(search.plan) >= 2

\* C2 (precondition safety): generatePlan never raises the not-applicable
\* error of apply, and in a returned plan every action is applicable in the
\* state produced by the actions before it.
PreconditionSafety ==
    /\ search.pc # "threw"
    /\ (search.pc = "plan" =>
           \A i \in 1..Len(search.plan) :
               isApplicable(search.plan[i],
                            Replay(search.plan, search.currentState, i - 1)))

\* a returned plan whose last action has a precondition that the start state
\* does not satisfy
PreconditionSafetyWitness ==
    /\ search.pc = "plan"
    /\ Len(search.plan) >= 2
    /\ ~isApplicable(search.plan[Len(search.plan)], search.currentState)

\* C3 (optimality as documented): a returned plan has the minimum total cost
\* among all action sequences that lead from start to a goal state.
Optimality ==
    search.pc = "plan" =>
        \A c \in GoalCosts(actions, search.currentState, search.goalState) :
            PlanCost(search.plan) <= c

\* C4 (no-plan correctness): no node of cost above maxSearchDepth is on the
\* frontier, a returned plan costs at most maxSearchDepth, and when no action
\* sequence within that cost reaches a goal state the result is null.
NoPlanCorrectness ==
    /\ (search.pc # "idle" =>
           \A i \in 1..Len(search.openSet) :
               search.nodes[search.openSet[i]].cost <= maxSearchDepth)
    /\ (search.pc = "plan" => PlanCost(search.plan) <= maxSearchDepth)
    /\ (PlanFinished
        /\ ~ReachableWithin(actions, search.currentState, search.goalState,
                            maxSearchDepth))
       => search.pc = "null"

\* null is returned although a sequence costing more than the cap reaches the
\* goal
NoPlanCorrectnessWitness ==
    /\ search.pc = "null"
    /\ GoalCosts(actions, search.currentState, search.goalState) # {}
    /\ ~ReachableWithin(actions, search.currentState, search.goalState,
                        maxSearchDepth)

\* C5 (termination): a call of generatePlan returns a plan or null after
\* dequeuing at most maxIterations nodes, also when the actions cost nothing
\* and leave states unchanged.
Termination ==
    search.pc # "idle" =>
        /\ search.pc \in {"plan", "null"}
        /\ search.iterations <= maxIterations

\* the iteration cap ended a search over zero-cost actions whose frontier
\* was not empty
TerminationWitness ==
    /\ search.pc = "null"
    /\ search.iterations = maxIterations
    /\ Len(search.openSet) > 0
    /\ \A i \in 1..Len(actions) : actions[i].cost = 0

\* the result of a second call whose start and goal hold the same
\* propositions, inserted in the opposite order
SecondCall == generatePlan(actions, Reverse(search.currentState),
                           Reverse(search.goalState))

\* the node ids of the frontier whose totalCost is the least
Cheapest(s) ==
    {s.openSet[i] : i \in {j \in 1..Len(s.openSet) :
        s.nodes[s.openSet[j]].totalCost = MinTotalCost(s.nodes, s.openSet)}}

\* C6 (determinism): a call with the same repertoire and value-equal start and
\* goal states returns the same action sequence with the same total cost, and
\* every dequeue takes, among the frontier nodes of least f, the one that was
\* pushed first.
Determinism ==
    [][/\ PlanFinished =>
             /\ SecondCall.pc = search.pc
             /\ Names(SecondCall.plan) = Names(search.plan)
             /\ PlanCost(SecondCall.plan) = PlanCost(search.plan)
       /\ (search.pc = "loop" /\ search'.iterations = search.iterations + 1) =>
             /\ search'.current \in Cheapest(search)
             /\ \A id \in Cheapest(search) : search'.current <= id]_vars

\* a plan was returned for a start state of two propositions, after a dequeue
\* that had to choose between nodes of equal f
DeterminismWitness ==
    /\ search.pc = "plan"
    /\ Len(search.currentState) >= 2
    /\ Len(search.plan) >= 1
    /\ \E id \in 1..Len(search.nodes) :
           /\ id # search.current
           /\ search.nodes[id].totalCost = search.nodes[search.current].totalCost
           /\ \E i \in 1..Len(search.openSet) : search.openSet[i] = id

ScenarioA == {"create", "code", "deploy"}
ScenarioB == {"create", "code", "deploy", "quickdeploy"}
Deployed == << <<"deployed", JsTrue>> >>

\* C7 (cheaper alternative preferred): from the empty state with goal
\* deployed, the repertoire of Scenario A gives [create, code, deploy] at cost
\* 6 and that of Scenario B gives [create, code, quickdeploy] at cost 5; and
\* the last action of a returned plan is never costlier than another action
\* that leads from the same expanded node to a goal state.
CheaperPreferred ==
    /\ (PlanFinished /\ search.currentState = <<>> /\ search.goalState = Deployed
        /\ RegisteredNames = ScenarioA)
       => /\ search.pc = "plan"
          /\ Names(search.plan) = <<"create", "code", "deploy">>
          /\ PlanCost(search.plan) = 6
    /\ (PlanFinished /\ search.currentState = <<>> /\ search.goalState = Deployed
        /\ RegisteredNames = ScenarioB)
       => /\ search.pc = "plan"
          /\ Names(search.plan) = <<"create", "code", "quickdeploy">>
          /\ PlanCost(search.plan) = 5
    /\ (search.pc = "plan" /\ Len(search.plan) >= 1)
       => LET last == search.nodes[search.current]
              from == search.nodes[last.parent].state
          IN \A i \in 1..Len(actions) :
                 (/\ isApplicable(actions[i], from)
                  /\ satisfies(WithEffects(from, actions[i].effects), GoalObject))
                 => last.action.cost <= actions[i].cost

\* Scenario B has returned its plan, whose last step had a costlier rival
CheaperPreferredWitness ==
    /\ search.pc = "plan"
    /\ search.currentState = <<>>
    /\ search.goalState = Deployed
    /\ RegisteredNames = ScenarioB
    /\ Names(search.plan) = <<"create", "code", "quickdeploy">>

SetGetRoundTrip ==
    lastOp.op = "set" => get(heap[lastOp.ref], lastOp.key) = lastOp.value

\* C10 (applyEffects is pure and exact): applyEffects(e) returns a new state
\* in which every key of e has the value given by e and every other key is as
\* in the receiver; every state that existed before is unchanged; and with
\* empty effects the result has the same toString key as the receiver.
ApplyEffectsExact ==
    [][LET r == lastOp'.ref
           effects == lastOp'.effects
       IN (lastOp'.op = "applyEffects" /\ CallApplyEffects(r, effects)) =>
              LET n == lastOp'.ret
              IN /\ n = Len(heap) + 1
                 /\ Len(heap') = n
                 /\ \A q \in 1..Len(heap) : heap'[q] = heap[q]
                 /\ \A i, j \in 1..Len(heap'[n]) :
                        heap'[n][i][1] = heap'[n][j][1] => i = j
                 /\ \A k \in StateKeys :
                        IF MapHas(effects, k)
                        THEN /\ MapHas(heap'[n], k)
                             /\ MapGet(heap'[n], k) = MapGet(effects, k)
                        ELSE /\ MapHas(heap'[n], k) = MapHas(heap[r], k)
                             /\ MapGet(heap'[n], k) = MapGet(heap[r], k)
                 /\ effects = <<>> => toString(heap'[n]) = toString(heap[r])]_vars

\* applyEffects has overwritten one key of its receiver's entries and kept
\* another, in the state it returned
ApplyEffectsExactWitness ==
    /\ lastOp.op = "applyEffects"
    /\ lastOp.ret = Len(heap)
    /\ \E k \in StateKeys :
           /\ MapHas(lastOp.effects, k)
           /\ MapHas(heap[lastOp.ref], k)
           /\ MapGet(heap[lastOp.ref], k) # MapGet(lastOp.effects, k)
           /\ MapGet(heap[lastOp.ret], k) = MapGet(lastOp.effects, k)
    /\ \E k \in StateKeys :
           /\ ~MapHas(lastOp.effects, k)
           /\ MapHas(heap[lastOp.ref], k)
           /\ MapGet(heap[lastOp.ret], k) = MapGet(heap[lastOp.ref], k)

\* the keys of a Map
Keys(s) == {s[i][1] : i \in 1..Len(s)}

\* s and t hold the same propositions with the same values
SameValues(s, t) ==
    /\ Keys(s) = Keys(t)
    /\ \A k \in Keys(s) : MapGet(s, k) = MapGet(t, k)

\* C11 (canonical key): two states of a search that hold the same
\* propositions with the same values have the same toString key, in whatever
\* order the propositions were inserted.
CanonicalKey ==
    search.pc # "idle" =>
        \A i, j \in 1..Len(search.nodes) :
            SameValues(search.nodes[i].state, search.nodes[j].state)
            => toString(search.nodes[i].state) = toString(search.nodes[j].state)


\* C12 (apply is checked): apply on a state in which the action is not
\* applicable ends with an error, creates no state and changes none; on a
\* state in which it is applicable it returns a new state equal to the result
\* of applyEffects(effects) on the input, and the input and every other state
\* are unchanged.
ApplyChecked ==
    [][LET a == lastOp'.action
           r == lastOp'.ref
       IN (lastOp'.op = "apply" /\ CallApply(a, r)) =>
              IF \E i \in 1..Len(a.preconditions) :
                     get(heap[r], a.preconditions[i][1]) # a.preconditions[i][2]
              THEN /\ lastOp'.threw
                   /\ lastOp'.ret = 0
                   /\ heap' = heap
              ELSE /\ ~lastOp'.threw
                   /\ lastOp'.ret = Len(heap) + 1
                   /\ Len(heap') = Len(heap) + 1
                   /\ heap'[lastOp'.ret] = WithEffects(heap[r], a.effects)
                   /\ \A q \in 1..Len(heap) : heap'[q] = heap[q]]_vars

\* apply has ended with the error on a state that holds one of the two
\* propositions the action requires
ApplyCheckedWitness ==
    /\ lastOp.op = "apply"
    /\ lastOp.threw
    /\ \E i \in 1..Len(lastOp.action.preconditions) :
           get(heap[lastOp.ref], lastOp.action.preconditions[i][1])
               = lastOp.action.preconditions[i][2]


(***************************************************************************)
(* Properties of OODALoop                                                  *)
(***************************************************************************)
\* the fields of the loop, read where the loop has been set up
Plan == loop.currentPlan[1]
World == loop.worldState[1]
Goal == loop.goalState[1]
History == loop.executionHistory

LastHasError == History # <<>> /\ HasError(History[Len(History)])

\* every action of the plan from currentStep on is applicable in the live
\* state, and there is such an action
RemainingApplicable ==
    /\ loop.currentStep < Len(Plan)
    /\ \A i \in 1..Len(Plan) :
           i > loop.currentStep => satisfies(World, Plan[i].preconditions)

\* C13 (decision table): in every cycle the decision is Replan iff an
\* unexpected state change was signalled, or the plan is no longer valid, or
\* the goal is not reachable from the live state, or the last history entry
\* carries an error; otherwise it is Complete iff currentStep >=
\* currentPlan.length; otherwise it is Continue.
DecisionTable ==
    loop.pc = "act" =>
        LET needsReplanning ==
                \/ loop.analysis.stateChanged
                \/ ~RemainingApplicable
                \/ generatePlan(actions, World, Goal).pc = "null"
                \/ LastHasError
        IN /\ loop.decision.action \in {"replan", "complete", "continue"}
           /\ loop.decision.action = "replan" <=> needsReplanning
           /\ ~needsReplanning =>
                  (loop.decision.action = "complete"
                       <=> loop.currentStep >= Len(Plan))
           /\ (~needsReplanning /\ loop.currentStep < Len(Plan)) =>
                  loop.decision.action = "continue"

\* Replan has been decided for no other reason than the error in the last
\* history entry
DecisionTableWitness ==
    /\ loop.pc = "act"
    /\ loop.decision.action = "replan"
    /\ LastHasError
    /\ ~loop.analysis.stateChanged
    /\ RemainingApplicable
    /\ generatePlan(actions, World, Goal).pc = "plan"


\* the history is exactly the successful execution of every step of the
\* current plan, in order: nothing failed and nothing was replanned
AllStepsExecuted ==
    /\ Len(Plan) >= 1
    /\ loop.currentStep = Len(Plan)
    /\ Len(History) = Len(Plan)
    /\ \A i \in 1..Len(History) :
           /\ "result" \in DOMAIN History[i]
           /\ History[i].step = i - 1
           /\ History[i].action = Plan[i].name

\* C14 (the loop completes): when every step of the plan has been executed
\* with success and no unexpected state change is signalled, the decision of
\* the next cycle is Complete.
LoopCompletes ==
    (loop.pc = "act" /\ AllStepsExecuted /\ ~loop.analysis.stateChanged)
    => loop.decision.action = "complete"


\* C15 (the loop executes the plan it is given): in the first cycle of a
\* loop whose plan, of at least one action, is the one that generatePlan
\* returns for its live state and goal, the decision is Continue.
ExecutesGivenPlan ==
    (/\ loop.pc = "act"
     /\ History = <<>>
     /\ loop.currentStep = 0
     /\ Len(Plan) >= 1
     /\ generatePlan(actions, World, Goal).pc = "plan"
     /\ generatePlan(actions, World, Goal).plan = Plan)
    => loop.decision.action = "continue"


\* C16 (failure semantics of executeNextAction): when execute of the action
\* at currentStep fails, as it does for an unknown execution type, exactly one
\* entry with the step index, the action name and the error message is
\* appended, worldState, currentStep and currentPlan are unchanged and
\* monitoring stays true; when execute succeeds the live state becomes the
\* result of apply, currentStep is incremented and the entry carries the
\* result.
FailureSemantics ==
    [][(loop.pc = "act" /\ loop.decision.action = "continue") =>
          LET action == Plan[loop.currentStep + 1]
              last == History'[Len(History')]
          IN /\ Len(History') = Len(History) + 1
             /\ SubSeq(History', 1, Len(History)) = History
             /\ last.step = loop.currentStep
             /\ last.action = action.name
             /\ loop'.currentPlan = loop.currentPlan
             /\ loop'.monitoring
             /\ IF action.executionType \notin {"code", "llm", "hybrid"}
                THEN /\ DOMAIN last = {"step", "action", "error"}
                     /\ last.error = <<"Unknown execution type", action.executionType>>
                     /\ loop'.worldState = loop.worldState
                     /\ loop'.currentStep = loop.currentStep
                ELSE /\ DOMAIN last = {"step", "action", "result"}
                     /\ last.result.success
                     /\ loop'.worldState = NonNull(WithEffects(World, action.effects))
                     /\ loop'.currentStep = loop.currentStep + 1]_vars

\* the execution of a step has failed: its error entry is the last one, and
\* the loop is still monitoring at the same step of the same live state
FailureSemanticsWitness ==
    /\ loop.pc = "while"
    /\ LastHasError
    /\ loop.monitoring
    /\ loop.currentStep = History[Len(History)].step
    /\ Plan[loop.currentStep + 1].name = History[Len(History)].action
    /\ ~satisfies(World, Plan[loop.currentStep + 1].effects)


\* the entry that replan appends for the plan that generatePlan returns from
\* the live state
PlanUpdated ==
    [step |-> "replan", action |-> "plan_updated",
     newPlan |-> Names(generatePlan(actions, World, Goal).plan)]

IsPlanUpdated(e) == "newPlan" \in DOMAIN e

\* C17 (replanning follows every failure): in the cycle after an error entry
\* needsReplanning is true and the decision is Replan; acting on it either
\* installs the plan that generatePlan returns and appends one plan_updated
\* entry, or stops the loop and appends nothing; so in executionHistory an
\* entry with an error is never directly followed by a step entry.
ReplanFollowsFailure ==
    [][/\ (loop'.pc = "decide" /\ LastHasError') => loop'.analysis.needsReplanning
       /\ (loop'.pc = "act" /\ LastHasError') => loop'.decision.action = "replan"
       /\ (loop.pc = "act" /\ LastHasError) =>
              IF generatePlan(actions, World, Goal).pc = "plan"
              THEN /\ loop'.currentPlan = NonNull(generatePlan(actions, World, Goal).plan)
                   /\ History' = Append(History, PlanUpdated)
                   /\ loop'.monitoring
              ELSE /\ ~loop'.monitoring
                   /\ History' = History
       /\ \A i \in 1..(Len(History') - 1) :
              HasError(History'[i]) => IsPlanUpdated(History'[i + 1])]_vars

\* a failed step is followed in the history by the plan_updated entry of the
\* replan that it caused
ReplanFollowsFailureWitness ==
    \E i \in 1..(Len(History) - 1) :
        HasError(History[i]) /\ IsPlanUpdated(History[i + 1])


\* C18 (effect of replan): replan changes neither worldState nor goalState.
\* When generatePlan from the live state returns a plan, that plan becomes
\* currentPlan, currentStep becomes 0 and exactly one plan_updated entry with
\* the names of its actions is appended; when it returns null, currentPlan,
\* currentStep and executionHistory are unchanged and monitoring becomes
\* false.
ReplanEffect ==
    [][(loop.pc = "act" /\ loop.decision.action = "replan") =>
          LET newPlan == generatePlan(actions, World, Goal)
          IN /\ loop'.worldState = loop.worldState
             /\ loop'.goalState = loop.goalState
             /\ newPlan.pc \in {"plan", "null"}
             /\ newPlan.pc = "plan" =>
                    /\ loop'.currentPlan = NonNull(newPlan.plan)
                    /\ loop'.currentStep = 0
                    /\ Len(History') = Len(History) + 1
                    /\ SubSeq(History', 1, Len(History)) = History
                    /\ History'[Len(History')].step = "replan"
                    /\ History'[Len(History')].action = "plan_updated"
                    /\ History'[Len(History')].newPlan =
                           [i \in 1..Len(newPlan.plan) |-> newPlan.plan[i].name]
                    /\ loop'.monitoring = loop.monitoring
             /\ newPlan.pc = "null" =>
                    /\ loop'.currentPlan = loop.currentPlan
                    /\ loop'.currentStep = loop.currentStep
                    /\ History' = History
                    /\ ~loop'.monitoring]_vars

\* a replan made after a step had been executed has installed a plan of at
\* least one action and set currentStep back to 0
ReplanEffectWitness ==
    /\ loop.pc = "while"
    /\ Len(History) >= 2
    /\ IsPlanUpdated(History[Len(History)])
    /\ History[Len(History)].newPlan = Names(Plan)
    /\ Len(Plan) >= 1
    /\ ~IsPlanUpdated(History[Len(History) - 1])
    /\ ~HasError(History[Len(History) - 1])
    /\ loop.currentStep = 0


\* C19 (the loop stops only for a reason): once runOODALoop has set
\* monitoring, a step of the loop clears it only by acting on the Complete
\* decision or by a replan for which generatePlan from the live state
\* returned null; acting on Continue never clears it, whether the execution
\* fails or not; and runOODALoop returns only after monitoring was cleared.
StopsOnlyForAReason ==
    [][/\ (loop.monitoring /\ ~loop'.monitoring) =>
              /\ loop.pc = "act"
              /\ \/ loop.decision.action = "complete"
                 \/ /\ loop.decision.action = "replan"
                    /\ generatePlan(actions, World, Goal).pc = "null"
       /\ (loop.pc = "act" /\ loop.decision.action = "continue") => loop'.monitoring
       /\ loop'.pc = "returned" => ~loop.monitoring]_vars

\* runOODALoop has returned after a replan that found no plan from the live
\* state
StopsOnlyForAReasonWitness ==
    /\ loop.pc = "returned"
    /\ ~loop.monitoring
    /\ generatePlan(actions, World, Goal).pc = "null"


\* C20 (history is append-only and ordered): a step of the loop leaves the
\* existing entries as they are and appends at most one; an appended step
\* entry names the action at currentStep and carries currentStep as its step;
\* so a step entry that follows a plan_updated entry has step 0, and one that
\* follows a successful step entry has the next index.
HistoryAppendOnly ==
    [][/\ Len(History') \in {Len(History), Len(History) + 1}
       /\ SubSeq(History', 1, Len(History)) = History
       /\ Len(History') = Len(History) + 1 =>
              IF IsPlanUpdated(History'[Len(History')])
              THEN loop'.currentStep = 0
              ELSE /\ History'[Len(History')].step = loop.currentStep
                   /\ History'[Len(History')].action = Plan[loop.currentStep + 1].name
       /\ \A i \in 1..Len(History') :
              ~IsPlanUpdated(History'[i]) =>
                  History'[i].step =
                      IF i = 1 \/ IsPlanUpdated(History'[i - 1]) THEN 0
                      ELSE IF HasError(History'[i - 1]) THEN History'[i - 1].step
                      ELSE History'[i - 1].step + 1]_vars

\* two steps were executed, the plan was updated, and the first step of the
\* new plan was executed with index 0
HistoryAppendOnlyWitness ==
    /\ Len(History) >= 4
    /\ \E i \in 3..(Len(History) - 1) :
           /\ IsPlanUpdated(History[i])
           /\ ~IsPlanUpdated(History[i - 1]) /\ History[i - 1].step = 1
           /\ ~IsPlanUpdated(History[i - 2]) /\ History[i - 2].step = 0
           /\ ~IsPlanUpdated(History[i + 1]) /\ History[i + 1].step = 0


\* C21 (stop signal): when the caller clears monitoring while execute is in
\* flight, that execution finishes: its one history entry is appended and, on
\* success, its effects are applied and currentStep is incremented; the flag
\* is then read at the top of the next pass, and runOODALoop returns without
\* executing a further action and without replanning.
StopSignal ==
    [][/\ (loop.pc = "executing" /\ ~loop.monitoring) =>
              LET action == Plan[loop.currentStep + 1]
                  last == History'[Len(History')]
              IN /\ loop'.pc = "while"
                 /\ ~loop'.monitoring
                 /\ Len(History') = Len(History) + 1
                 /\ SubSeq(History', 1, Len(History)) = History
                 /\ last.step = loop.currentStep
                 /\ last.action = action.name
                 /\ loop'.currentPlan = loop.currentPlan
                 /\ IF action.executionType \in {"code", "llm", "hybrid"}
                    THEN /\ "result" \in DOMAIN last
                         /\ loop'.worldState = NonNull(WithEffects(World, action.effects))
                         /\ loop'.currentStep = loop.currentStep + 1
                    ELSE /\ "error" \in DOMAIN last
                         /\ loop'.worldState = loop.worldState
                         /\ loop'.currentStep = loop.currentStep
       /\ (loop.pc = "while" /\ ~loop.monitoring) =>
              loop' = [loop EXCEPT !.pc = "returned"]
       /\ loop.pc = "returned" => loop' = loop]_vars

\* runOODALoop has returned after a stop: the last entry is that of the step
\* that was in flight, which succeeded; steps of the plan remain, and a
\* replan would have found a plan
StopSignalWitness ==
    /\ loop.pc = "returned"
    /\ ~loop.monitoring
    /\ History # <<>>
    /\ "result" \in DOMAIN History[Len(History)]
    /\ loop.currentStep = History[Len(History)].step + 1
    /\ loop.currentStep < Len(Plan)
    /\ satisfies(World, Plan[loop.currentStep].effects)
    /\ generatePlan(actions, World, Goal).pc = "plan"


\* C22 (a goal change in mid-execution is detected): when, after the first
\* step of a two-step plan has been executed, a new action is registered and
\* the goal is replaced by one that also requires its effect, the next orient
\* computes needsReplanning = true although no unexpected state change is
\* signalled and nothing has failed, and the replan installs a plan that
\* contains the new action.
GoalChangeDetected ==
    [][(/\ loop.pc = "while"
        /\ actions' # actions
        /\ Len(Plan) = 2
        /\ loop.currentStep = 1
        /\ Len(History) = 1
        /\ ~LastHasError) =>
          /\ orient(loop', actions', observe(loop'), FALSE).needsReplanning
          /\ \E i \in 1..Len(replan(loop', actions').currentPlan[1]) :
                 replan(loop', actions').currentPlan[1][i] = NewAction]_vars


(***************************************************************************)
(* Properties of analyzePlan                                               *)
(***************************************************************************)
\* the estimate of a plan of one action of the given execution type
EstimateOf(executionType) ==
    estimateExecutionTime(<<GOAPAction("one", <<>>, <<>>, 1, executionType)>>)

\* the number of actions of the plan whose execution type is in the set
CountOf(plan, types) ==
    Cardinality({i \in 1..Len(plan) : plan[i].executionType \in types})

\* C23 as claimed (duration table): the estimates of one-action plans are
\* ordered code < hybrid < llm, and estimatedTime of a plan is the sum of the
\* estimates of its actions.
DurationOrderClaimed ==
    lastOp.op = "analyzePlan" =>
        /\ EstimateOf("code") < EstimateOf("hybrid")
        /\ EstimateOf("hybrid") < EstimateOf("llm")
        /\ (Len(lastOp.plan) = 1 /\ lastOp.plan[1].executionType = "hybrid") =>
               lastOp.ret[1].estimatedTime < EstimateOf("llm")

\* C23 as amended (duration table): the table is code 100 < llm 200 <
\* hybrid 250, an action of any other execution type counts 100, and
\* estimatedTime of a plan is the sum of the table entries of its actions; so
\* a one-action hybrid plan is estimated strictly above a one-action llm plan.
DurationOrder ==
    lastOp.op = "analyzePlan" =>
        /\ lastOp.ret[1].estimatedTime =
               100 * CountOf(lastOp.plan, {"code"})
               + 200 * CountOf(lastOp.plan, {"llm"})
               + 250 * CountOf(lastOp.plan, {"hybrid"})
               + 100 * (Len(lastOp.plan)
                        - CountOf(lastOp.plan, {"code", "llm", "hybrid"}))
        /\ (Len(lastOp.plan) = 1 /\ lastOp.plan[1].executionType = "hybrid") =>
               lastOp.ret[1].estimatedTime > EstimateOf("llm")
        /\ (Len(lastOp.plan) = 1 /\ lastOp.plan[1].executionType = "llm") =>
               lastOp.ret[1].estimatedTime > EstimateOf("code")

\* a plan of one hybrid action has been analysed
DurationOrderWitness ==
    /\ lastOp.op = "analyzePlan"
    /\ Len(lastOp.plan) = 1
    /\ lastOp.plan[1].executionType = "hybrid"
    /\ lastOp.ret[1].estimatedTime = 250


\* the actions conflict: the effects of one touch the preconditions of the
\* other, or both have an effect on the same proposition
Conflict(a, b) ==
    \/ Keys(a.effects) \cap Keys(b.preconditions) # {}
    \/ Keys(b.effects) \cap Keys(a.preconditions) # {}
    \/ Keys(a.effects) \cap Keys(b.effects) # {}

\* the ways to place the groups in the plan: st[k] is the position of the
\* first action of group k, every group is a run of consecutive actions of the
\* plan, and a group starts after the end of the group before it
Starts(plan, groups) ==
    {st \in [1..Len(groups) -> 1..Len(plan)] :
        \A k \in 1..Len(groups) :
            /\ st[k] + Len(groups[k]) - 1 <= Len(plan)
            /\ SubSeq(plan, st[k], st[k] + Len(groups[k]) - 1) = groups[k]
            /\ k > 1 => st[k] >= st[k - 1] + Len(groups[k - 1])}

\* the positions of the plan that the placed groups cover
Covered(groups, st) ==
    UNION {st[k]..(st[k] + Len(groups[k]) - 1) : k \in 1..Len(groups)}

\* the groups one after the other
RECURSIVE Concat(_)
Concat(groups) ==
    IF groups = <<>> THEN <<>> ELSE groups[1] \o Concat(Tail(groups))

Groups == lastOp.ret[1].parallelizable

\* C24 (safe groups): the groups that findParallelizableActions returns are
\* runs of consecutive actions of the plan, in plan order and without a
\* shared occurrence; a group has at most 3 members and no two members of a
\* group conflict.
GroupsAreSafe ==
    lastOp.op = "analyzePlan" =>
        /\ Starts(lastOp.plan, Groups) # {}
        /\ \A k \in 1..Len(Groups) :
               /\ Len(Groups[k]) <= 3
               /\ \A i, j \in 1..Len(Groups[k]) :
                      i < j => ~Conflict(Groups[k][i], Groups[k][j])

\* two groups have been returned for a plan
GroupsAreSafeWitness ==
    /\ lastOp.op = "analyzePlan"
    /\ Len(Groups) = 2

\* C25 as claimed (partition): the groups, one after the other, are the plan.
GroupsPartitionPlan ==
    lastOp.op = "analyzePlan" => Concat(Groups) = lastOp.plan

\* C25 as amended (groups of two or more): every returned group has at least
\* 2 members, and an action that is in no group is a run of its own: the
\* action after it conflicts with it, and it conflicts with a member of the
\* run before it unless that run is a group of 3.
GroupsOfTwoOrMore ==
    lastOp.op = "analyzePlan" =>
        /\ \A k \in 1..Len(Groups) : Len(Groups[k]) >= 2
        /\ \E st \in Starts(lastOp.plan, Groups) :
               \A i \in (1..Len(lastOp.plan)) \ Covered(Groups, st) :
                   /\ i < Len(lastOp.plan) =>
                          Conflict(lastOp.plan[i + 1], lastOp.plan[i])
                   /\ (i > 1 /\ i - 1 \notin Covered(Groups, st)) =>
                          Conflict(lastOp.plan[i], lastOp.plan[i - 1])
                   /\ \A k \in 1..Len(Groups) :
                          st[k] + Len(Groups[k]) = i =>
                              \/ Len(Groups[k]) = 3
                              \/ \E j \in 1..Len(Groups[k]) :
                                     Conflict(lastOp.plan[i], Groups[k][j])

\* a group has been returned for a plan, and an action of the plan between
\* two others is in no group
GroupsOfTwoOrMoreWitness ==
    /\ lastOp.op = "analyzePlan"
    /\ Len(Groups) = 1
    /\ Len(Groups[1]) = 2
    /\ Len(lastOp.plan) = 4
    /\ Groups[1] = SubSeq(lastOp.plan, 3, 4)
    /\ Conflict(lastOp.plan[1], lastOp.plan[2])

(***************************************************************************)
(* Properties of addAction                                                 *)
(***************************************************************************)
\* C26 (validated registration): after any sequence of addAction calls every
\* action of the repertoire has a cost of at least 0, and no two actions of
\* the repertoire have the same name.
RepertoireIsValid ==
    /\ \A i \in 1..Len(actions) : actions[i].cost >= 0
    /\ \A i, j \in 1..Len(actions) : actions[i].name = actions[j].name => i = j

(***************************************************************************)
(* Properties of the closed set                                            *)
(***************************************************************************)
\* C27 (complete within the cost cap): when generatePlan returns null after
\* fewer than maxIterations dequeues, no sequence of registered actions of
\* total cost at most maxSearchDepth leads from the start state to a state
\* that satisfies the goal.
CompleteWithinCap ==
    (search.pc = "null" /\ search.iterations < maxIterations) =>
        ~ReachableWithin(actions, search.currentState, search.goalState,
                         maxSearchDepth)

\* the key of node n of the search
KeyOf(n) == toString(search.nodes[n].state)

\* C28 as claimed (closed states are not re-queued): a node is pushed onto the
\* frontier only if the key of its state is not in the closed set.
PushedOnlyIfNotClosed ==
    [][\A n \in (Len(search.nodes) + 1)..Len(search'.nodes) :
           toString(search'.nodes[n].state) \notin search'.closedSet]_vars

\* C28 as amended (closed states are skipped at dequeue): nodes are pushed
\* without a test of the closed set; the test is made on the dequeued node.
\* A dequeued node that misses the goal and whose key is closed is dropped
\* with nothing pushed, and nodes are pushed only as successors of a dequeued
\* node whose key was not closed before and is closed afterwards.
ClosedSkippedAtDequeue ==
    [][(search.pc = "loop" /\ search'.iterations = search.iterations + 1) =>
           LET cur == search'.current
               key == toString(search.nodes[cur].state)
           IN /\ (key \in search.closedSet /\ search'.pc = "loop") =>
                     /\ search'.nodes = search.nodes
                     /\ search'.closedSet = search.closedSet
              /\ Len(search'.nodes) > Len(search.nodes) =>
                     /\ key \notin search.closedSet
                     /\ key \in search'.closedSet
                     /\ \A n \in (Len(search.nodes) + 1)..Len(search'.nodes) :
                            search'.nodes[n].parent = cur]_vars

\* the node just dequeued was pushed by an action that left the state of its
\* parent unchanged, and it has been dropped: it is cheap enough for that
\* action to be affordable again, and it has no successor
ClosedSkippedAtDequeueWitness ==
    /\ search.pc = "loop"
    /\ search.current > 1
    /\ KeyOf(search.current) = KeyOf(search.nodes[search.current].parent)
    /\ KeyOf(search.current) \in search.closedSet
    /\ search.nodes[search.current].cost + search.nodes[search.current].action.cost
           <= maxSearchDepth
    /\ \A n \in 1..Len(search.nodes) : search.nodes[n].parent # search.current

\* C29 (no state is expanded twice): the closed set holds the key of every
\* node that has been expanded, so no two keys of the closed set hold the same
\* propositions with the same values.
NoStateExpandedTwice ==
    \A k1, k2 \in search.closedSet : SameValues(k1, k2) => k1 = k2

\* the start state of the search holds every proposition of the goal with the
\* value that the goal gives it
StartSatisfiesGoal ==
    \A k \in Keys(search.goalState) :
        /\ k \in Keys(search.currentState)
        /\ MapGet(search.currentState, k) = MapGet(search.goalState, k)

\* C30 (empty plan for a satisfied goal): generatePlan returns the empty plan
\* exactly when the start state satisfies the goal; it then returns on the
\* first dequeue, from the start node at cost 0 and with nothing closed.
EmptyPlanIffSatisfied ==
    PlanFinished =>
        /\ (search.pc = "plan" /\ search.plan = <<>>) <=> StartSatisfiesGoal
        /\ StartSatisfiesGoal =>
               /\ search.iterations = 1
               /\ search.current = 1
               /\ search.nodes[search.current].cost = 0
               /\ search.closedSet = {}

\* the empty plan has been returned from a planner that has actions which
\* are applicable in the start state
EmptyPlanIffSatisfiedWitness ==
    /\ search.pc = "plan"
    /\ search.plan = <<>>
    /\ search.goalState # <<>>
    /\ \E i \in 1..Len(actions) : isApplicable(actions[i], search.currentState)

(***************************************************************************)
(* Properties of the live state and of the step index                      *)
(***************************************************************************)
\* the entry records an action that was executed with success
IsSuccess(e) == ~HasError(e) /\ ~IsPlanUpdated(e)

\* the registered action of that name
Registered(name) == actions[RegistryIndex(actions, name)]

\* the first n entries of history replayed from state s: <<ok, state>>, where
\* state is s with the effects of the successful entries applied in order and
\* ok tells that each of their actions was applicable when its turn came
RECURSIVE ReplayHistory(_, _, _)
ReplayHistory(s, history, n) ==
    IF n = 0 THEN <<TRUE, s>>
    ELSE LET before == ReplayHistory(s, history, n - 1)
             e == history[n]
         IN IF IsSuccess(e)
            THEN <<before[1] /\ satisfies(before[2], Registered(e.action).preconditions),
                   WithEffects(before[2], Registered(e.action).effects)>>
            ELSE before

\* C31 (live state is the replay of history): once the loop has been set up,
\* worldState is the state the caller gave it with the effects of the
\* successful history entries applied in history order, each of their actions
\* being applicable when it ran; a step changes worldState only by appending a
\* successful entry, and entries with an error and plan_updated entries leave
\* worldState as it was.
WorldIsReplayOfHistory ==
    [][(loop.pc \notin {"constructed", "threw"} /\ loop.worldState # Null) =>
           /\ \E start \in LoopStarts :
                  ReplayHistory(NewGOAPState(start), loop'.executionHistory,
                                Len(loop'.executionHistory))
                      = <<TRUE, loop'.worldState[1]>>
           /\ IF Len(loop'.executionHistory) = Len(History) + 1
                 /\ IsSuccess(loop'.executionHistory[Len(History) + 1])
              THEN /\ isApplicable(Plan[loop.currentStep + 1], World)
                   /\ loop'.worldState[1]
                          = WithEffects(World, Plan[loop.currentStep + 1].effects)
              ELSE loop'.worldState = loop.worldState]_vars

\* the history holds a successful entry, a plan_updated entry and an entry
\* with an error
WorldIsReplayOfHistoryWitness ==
    /\ \E i \in 1..Len(History) : IsSuccess(History[i])
    /\ \E i \in 1..Len(History) : IsPlanUpdated(History[i])
    /\ \E i \in 1..Len(History) : HasError(History[i])

\* C32 (step index stays in range): while currentPlan is not null,
\* 0 <= currentStep <= currentPlan.length; a step that appends a successful
\* entry adds exactly 1 to currentStep, a step that appends a plan_updated
\* entry sets it to 0, and a step that appends an entry with an error or
\* appends nothing (a failed replan included) leaves it as it was.
StepIndexInRange ==
    [][/\ loop'.currentPlan # Null =>
              /\ 0 <= loop'.currentStep
              /\ loop'.currentStep <= Len(loop'.currentPlan[1])
       /\ IF Len(loop'.executionHistory) = Len(History)
          THEN loop'.currentStep = loop.currentStep
          ELSE LET e == loop'.executionHistory[Len(loop'.executionHistory)]
               IN IF IsPlanUpdated(e) THEN loop'.currentStep = 0
                  ELSE IF HasError(e) THEN loop'.currentStep = loop.currentStep
                  ELSE loop'.currentStep = loop.currentStep + 1]_vars

\* every action of a plan of two or more actions has been executed, and the
\* step index is at the length of the plan
StepIndexInRangeWitness ==
    /\ loop.currentPlan # Null
    /\ Len(Plan) >= 2
    /\ loop.currentStep = Len(Plan)
    /\ Len(History) >= 2
    /\ IsSuccess(History[Len(History)])

(***************************************************************************)
(* Properties of the agent module                                          *)
(***************************************************************************)
\* C33 (plan terminates within maxPlanDepth): plan returns, with null or with
\* a plan of at most maxPlanDepth actions; no node whose path holds
\* maxPlanDepth actions is expanded, and no two expanded nodes hold the same
\* propositions with the same values.
PlanTerminates ==
    lastOp.op = "plan" =>
        LET s == lastOp.ret[1]
        IN /\ s.pc \in {"plan", "null"}
           /\ s.pc = "plan" => Len(s.ret) <= maxPlanDepth
           /\ \A i \in 1..Len(s.expanded) :
                  Len(s.expanded[i].actions) < maxPlanDepth
           /\ \A i, j \in 1..Len(s.expanded) :
                  SameValues(s.expanded[i].state, s.expanded[j].state) => i = j

\* a plan of maxPlanDepth actions has been returned by a search in which two
\* orders of insertion led to one state
PlanTerminatesWitness ==
    /\ lastOp.op = "plan"
    /\ lastOp.ret[1].pc = "plan"
    /\ Len(lastOp.ret[1].ret) = maxPlanDepth
    /\ Cardinality({lastOp.ret[1].expanded[i].state :
                       i \in 1..Len(lastOp.ret[1].expanded)})
           = Len(lastOp.ret[1].expanded)
    /\ \E i \in 1..Len(lastOp.ret[1].openSet) :
           \E j \in 1..Len(lastOp.ret[1].expanded) :
               /\ lastOp.ret[1].openSet[i].state # lastOp.ret[1].expanded[j].state
               /\ SameValues(lastOp.ret[1].openSet[i].state,
                             lastOp.ret[1].expanded[j].state)

\* the entries of state overwritten with those of effects
Overwritten(state, effects, result) ==
    /\ Keys(result) = Keys(state) \cup Keys(effects)
    /\ \A k \in Keys(result) :
           MapGet(result, k) = IF k \in Keys(effects) THEN MapGet(effects, k)
                               ELSE MapGet(state, k)

\* every entry of conditions is an entry of state
Holds(conditions, state) ==
    \A k \in Keys(conditions) :
        k \in Keys(state) /\ MapGet(state, k) = MapGet(conditions, k)

\* C34 (executeFocused changes the state only on success): a call throws when
\* the named action is not defined and when its preconditions do not hold in
\* worldState; whenever a call throws, for these reasons or because the
\* callback rejected, worldState is what it was before the call; and when it
\* returns, the action is defined, its preconditions held, and worldState is
\* the previous state overwritten with its effects.
FocusedKeepsStateOnError ==
    [][(agent.pc = "idle" /\ agent'.mode = "focused") =>
           LET found == FindByName(agent.actions, agent'.input)
           IN /\ agent'.pc \in {"threw", "returned"}
              /\ found = <<>> => agent'.pc = "threw"
              /\ (found # <<>> /\ ~Holds(found[1].preconditions, agent.worldState))
                     => agent'.pc = "threw"
              /\ agent'.pc = "threw" => agent'.worldState = agent.worldState
              /\ agent'.pc = "returned" =>
                     /\ found # <<>>
                     /\ Holds(found[1].preconditions, agent.worldState)
                     /\ Overwritten(agent.worldState, found[1].effects,
                                    agent'.worldState)]_vars

\* the callback of an applicable action has rejected in a state that holds a
\* proposition
FocusedKeepsStateOnErrorWitness ==
    /\ agent.mode = "focused"
    /\ agent.pc = "threw"
    /\ agent.error = "rejected"
    /\ agent.worldState # <<>>

\* C35 (executeClosed reaches its goal): when executeClosed returns from an
\* agent with replanning on and no callback that rejects, worldState holds
\* every proposition of the target state of the goal.
ClosedReachesGoal ==
    (/\ agent.mode = "closed"
     /\ agent.pc = "returned"
     /\ agent.replanning
     /\ \A i \in 1..Len(agent.actions) : ~agent.actions[i].rejects)
    => Holds(agent.goal, agent.worldState)

\* C36 (executeClosed runs applicable actions only): in every pass of the
\* loop of executeClosed the action whose callback is called, and whose
\* effects are applied when it resolves, has all its preconditions satisfied
\* by worldState.
ClosedRunsApplicable ==
    [][(/\ agent.mode = "closed"
        /\ agent.pc = "for"
        /\ agent.index < Len(agent.plan))
       => Holds(agent.plan[agent.index + 1].preconditions, agent.worldState)]_vars

\* C37 (executePlan makes progress): when executePlan is entered with the
\* plan that plan(worldState, targetGoals, actions) returns, its first pass
\* acts on the first action of that plan: the result of the action is
\* recorded, its effects are applied and the loop moves on to the second
\* action.
PlanActsOnEveryAction ==
    [][(/\ agent.mode = "open"
        /\ agent.pc = "for"
        /\ agent.index = 0
        /\ agent.index < Len(agent.plan)
        /\ GOAPPlanner_plan(agent.worldState, agent.goal, agent.actions).pc = "plan"
        /\ agent.plan = GOAPPlanner_plan(agent.worldState, agent.goal, agent.actions).ret)
       => /\ agent'.index = 1
          /\ agent'.results = <<[action |-> agent.plan[1].name, success |-> TRUE]>>
                 \/ agent'.results = <<[action |-> agent.plan[1].name, success |-> FALSE]>>
          /\ agent'.worldState = applyAction(agent.plan[1], agent.worldState)]_vars

====
